---- MODULE Spec2Model ----
(***************************************************************************)
(* The voice-to-task pipeline of the to-do app.                            *)
(*                                                                         *)
(* Part 1: SpeechService (services/speechService.ts, the version with the  *)
(* cloud backend), together with the parts of AudioRecorderService, the    *)
(* browser recognizer and the timers it drives.  Every startListening()    *)
(* call is numbered 1..MaxStarts; the backend it activates (recognizer,    *)
(* simulation timer chain, recording) carries the same number.             *)
(*                                                                         *)
(* An async method is split at its awaits that wait for I/O; the code      *)
(* between two awaits is one action.  Timers (setTimeout) are pending      *)
(* entries that may fire in any order the delays allow.                    *)
(*                                                                         *)
(* The environment decides: what requestMicrophonePermission() answers     *)
(* (the service imports it, the tests replace it), whether file-system and *)
(* network calls succeed, and which events a browser recognizer fires.     *)
(* options.timeout is a positive number, as in the defaults (10000) and in *)
(* createSpeechService (15000).                                            *)
(***************************************************************************)
EXTENDS Naturals, FiniteSets, Sequences, TLC

\* ---------------------------------------------------------------- bounds
MaxStarts == 2        \* startListening() calls in one run
MaxStops == 2         \* stopListening() calls in one run
NumWords == 2         \* words of the phrase the simulation speaks
MaxFinals == 2        \* final results the browser recognizers deliver in one cycle
MaxGateCalls == 4     \* requestMicrophonePermission() calls in one run
MaxAtoms == 5         \* atoms of the texts the parser is tried on exhaustively
MaxParses == 3        \* parseTasksFromSpeech() calls on one parser

Calls == 1..MaxStarts

\* SpeechState
IDLE == "idle"
LISTENING == "listening"
PROCESSING == "processing"
ERROR == "error"
SpeechState == {IDLE, LISTENING, PROCESSING, ERROR}

\* Error messages startListening() rejects with
PermissionDenied == "Microphone permission denied"
PermissionThrew == "Permission error"
NotSupported == "Speech recognition not supported in this browser"

VARIABLES
    cfg,                \* Platform.OS, window.SpeechRecognition, isSpeechConfigured(), options.partialResults
    state,              \* SpeechService.state
    recognition,        \* SpeechService.recognition: 0 (null) or the recognizer's number
    timeoutId,          \* SpeechService.timeoutId: 0 (null) or the timer's number
    cloudSpeechService, \* SpeechService.cloudSpeechService # null
    audioRecorder,      \* SpeechService.audioRecorder # null
    isRecording,        \* AudioRecorderService.isRecording
    recOwner,           \* the start call whose recording is (was last) in progress
    call,               \* position of each startListening() call
    rejection,          \* message each startListening() call rejected with, or "none"
    backend,            \* the backend variant each start call activated
    rec,                \* each browser recognizer's status
    chain,              \* each simulation's pending timer and wordIndex
    fb,                 \* pending feedback timers of each recording
    tmo,                \* each timeout timer: none, armed, fired, cleared
    job,                \* each stopRealMobileRecording() run, by the recording it stops
    transcription,      \* the CloudSpeechResult transcribeAudio() returned last
    deactivated,        \* stopListening() ran after this backend was activated (for the
                        \* recording it stops: the transcription it awaits has ended)
    nStarts,            \* startListening() calls made
    nStops,             \* stopListening() calls made
    stopFrom,           \* the state in which stopListening() was last called, or "none"
    onStartCalls,       \* callbacks.onStart invocations
    onEndCalls,         \* callbacks.onEnd invocations
    onErrorCalls,       \* callbacks.onError invocations
    cycFinals,          \* onResult(isFinal=true) since the last entry to LISTENING by startListening
    cycEnds,            \* onEnd since the last entry to LISTENING by startListening
    cycErrors,          \* onError since the last entry to LISTENING by startListening
    onResultParity,     \* parity of the number of onResult invocations
    lastCb,             \* the callback invoked last
    lastResult          \* the argument of the last onResult, and the backend it came from

\* requestMicrophonePermission() (utils/permissions.ts), studied on its own
VARIABLES
    gateEnv,            \* Platform.OS, and whether navigator.mediaDevices exists
    gatePc,             \* position of the current call: idle, getUserMedia, returned, threw
    gateCause,          \* what the platform answered in the current (last) call
    gateResult,         \* the PermissionResult the last call returned
    gateLog             \* cause and result of every call that has returned

\* TaskParser.parseTasksFromSpeech() (services/taskParser.ts), studied on its own
VARIABLES
    parseOptions,       \* TaskParser.options
    parseText,          \* the argument text
    parsePc,            \* position of the call: idle, strategies, returned
    cleanText,          \* preprocessText(text)
    strategyIdx,        \* index of the next strategy the loop tries
    strategyThrew,      \* the strategies whose call threw (caught by the loop)
    bestResult,         \* bestResult of the loop
    parseResult,        \* the ParseResult returned
    nParses,            \* number of calls of parseTasksFromSpeech on this parser
    parsed              \* text and ParseResult of every call that has returned, in order

\* HomeScreen.handleConfirmTranscript() (app/index.tsx), studied on its own
VARIABLES
    screenTranscript,   \* HomeScreen's transcript state
    confirmedText,      \* the transcript when the user confirmed it
    confirmPc,          \* position of the handler: idle, parsing, awaiting, done
    sinkCalls,          \* the titles addTask() has been called with, in order
    alertTitle          \* title of the last Alert.alert(), or "none"

\* TaskProvider.addTask() (context/TaskContext.tsx) under the calls of
\* handleConfirmTranscript, studied on its own
VARIABLES
    ctxTasks,           \* the tasks state of TaskProvider (titles)
    storedTasks,        \* the task list AsyncStorage holds
    closureTasks,       \* tasks as the addTask closure of the last render captured it
    updatedTasks,       \* updatedTasks of each addTask call of the current confirmation
    saving,             \* saveTasks() of each addTask call: none, pending, saved, failed
    nTitles,            \* number of tasks parsed by the current confirmation
    addPc,              \* position of the handler: idle, awaiting, settled
    nConfirms           \* confirmations made

\* AudioRecorderService (services/audioRecorderService.ts), studied on its
\* own; its isRecording field is the variable isRecording above
VARIABLES
    currentRecordingPath, \* 0 for '', or the number of the call that set it
    op,                 \* each call of the recorder: its method and its position
    nOps                \* calls of the recorder made

gateVars == <<gateEnv, gatePc, gateCause, gateResult, gateLog>>
taskVars == <<ctxTasks, storedTasks, closureTasks, updatedTasks, saving, nTitles, addPc,
              nConfirms>>
deviceVars == <<currentRecordingPath, op, nOps>>
confirmVars == <<screenTranscript, confirmedText, confirmPc, sinkCalls, alertTitle>>
parseVars == <<parseOptions, parseText, parsePc, cleanText, strategyIdx, strategyThrew,
               bestResult, parseResult, nParses, parsed>>

sessionVars == <<state, recognition, timeoutId, cloudSpeechService, audioRecorder>>
recorderVars == <<isRecording, recOwner>>
callVars == <<call, rejection, backend, nStarts>>
timerVars == <<chain, fb, tmo>>
cbVars == <<onStartCalls, onEndCalls, onErrorCalls, cycFinals, cycEnds, cycErrors,
           lastCb, onResultParity, lastResult>>
stopVars == <<nStops, stopFrom>>
speechVars == <<cfg, sessionVars, recorderVars, callVars, rec, timerVars, job,
                transcription, deactivated, stopVars, cbVars>>
vars == <<speechVars, gateVars, parseVars, confirmVars, taskVars, deviceVars>>

NoChain == [phase |-> "none", idx |-> 0]

\* The argument of an onResult call (confidence in hundredths), with the
\* number of the backend that made the call.
Result(src, transcript, confidence, final) ==
    [src |-> src, transcript |-> transcript, confidence |-> confidence, isFinal |-> final]

NoResult == Result(0, "", 0, FALSE)

\* callbacks.onResult(r) / no onResult call in this step
OnResultCall(r) == lastResult' = r /\ onResultParity' = 1 - onResultParity
NoOnResult == UNCHANGED <<lastResult, onResultParity>>

\* Callback bookkeeping of one step: s onStart, e onEnd, r onError calls and
\* f final onResult calls were made, the last call being the callback l.
Invoke(s, e, r, f, l) ==
    /\ onStartCalls' = onStartCalls + s
    /\ onEndCalls' = onEndCalls + e
    /\ onErrorCalls' = onErrorCalls + r
    /\ cycFinals' = cycFinals + f
    /\ cycEnds' = cycEnds + e
    /\ cycErrors' = cycErrors + r
    /\ lastCb' = l

\* The same for the step in which startListening sets LISTENING: a new cycle.
InvokeNewCycle(s, r, l) ==
    /\ onStartCalls' = onStartCalls + s
    /\ onEndCalls' = onEndCalls
    /\ onErrorCalls' = onErrorCalls + r
    /\ cycFinals' = 0
    /\ cycEnds' = 0
    /\ cycErrors' = r
    /\ lastCb' = l

\* The error messages of a CloudSpeechResult with success=false: the request
\* could not be made or was refused (fetch rejected, or an HTTP status that is
\* not ok, such as 401 or 403), the response carries an error object, it
\* carries no results, or its first result carries no alternatives.
RequestFailed == "API request failed"
ApiError == "API Error"
NoSpeechDetected == "No speech detected in audio"
NoAlternatives == "No transcription alternatives found"
TranscriptionErrors == {RequestFailed, ApiError, NoSpeechDetected, NoAlternatives}

\* No transcribeAudio() call has returned yet.
NoTranscription == [success |-> FALSE, transcript |-> "", confidence |-> 0, error |-> "none"]

\* PermissionResult
PermissionResult(status, canAskAgain, granted) ==
    [status |-> status, canAskAgain |-> canAskAgain, granted |-> granted]

\* No call of the permission gate has returned yet.
NoPermissionResult == PermissionResult("none", FALSE, FALSE)

\* ParseStrategy
SINGLE_TASK == "single_task"
CONJUNCTION_SPLIT == "conjunction_split"
PUNCTUATION_SPLIT == "punctuation_split"
ACTION_VERB_SPLIT == "action_verb_split"
HYBRID == "hybrid"
FALLBACK == "fallback"

\* ParseResult; the confidence is in hundredths.
ParseResultOf(tasks, originalText, confidence, strategy, success) ==
    [tasks |-> tasks, originalText |-> originalText, confidence |-> confidence,
     strategy |-> strategy, success |-> success]

\* No ParseResult: bestResult = null, or nothing returned yet.
NoParseResult == ParseResultOf(<<>>, <<>>, 0, "none", FALSE)

\* The options of new TaskParser(): minTaskLength 3, maxTasks 10,
\* preserveOriginalOnFailure true.
DefaultOptions == [minTaskLength |-> 3, maxTasks |-> 10, preserveOriginalOnFailure |-> TRUE]

\* The platforms and options a session is constructed with.
Configurations ==
    { c \in [OS : {"web", "native"}, hasRecognition : BOOLEAN,
             configured : BOOLEAN, partialResults : BOOLEAN] :
        /\ c.OS = "web" => ~c.configured
        /\ c.OS = "native" => ~c.hasRecognition }

\* A SpeechService as its constructor leaves it.
SessionInit ==
    /\ state = IDLE
    /\ recognition = 0
    /\ timeoutId = 0
    /\ cloudSpeechService = FALSE
    /\ audioRecorder = FALSE
    /\ isRecording = FALSE
    /\ recOwner = 0
    /\ call = [i \in Calls |-> "none"]
    /\ rejection = [i \in Calls |-> "none"]
    /\ backend = [i \in Calls |-> "none"]
    /\ rec = [i \in Calls |-> "none"]
    /\ chain = [i \in Calls |-> NoChain]
    /\ fb = [i \in Calls |-> {}]
    /\ tmo = [i \in Calls |-> "none"]
    /\ job = [i \in Calls |-> "none"]
    /\ transcription = NoTranscription
    /\ deactivated = [i \in Calls |-> FALSE]
    /\ nStarts = 0
    /\ nStops = 0
    /\ stopFrom = "none"
    /\ onStartCalls = 0
    /\ onEndCalls = 0
    /\ onErrorCalls = 0
    /\ cycFinals = 0
    /\ cycEnds = 0
    /\ cycErrors = 0
    /\ onResultParity = 0
    /\ lastCb = "none"
    /\ lastResult = NoResult

\* No call of the permission gate is being studied.
GateUnused ==
    /\ gateEnv = [OS |-> "web", mediaDevices |-> TRUE]
    /\ gatePc = "idle"
    /\ gateCause = "none"
    /\ gateResult = NoPermissionResult
    /\ gateLog = <<>>

\* No call of the parser is being studied.
ParseUnused ==
    /\ parseOptions = DefaultOptions
    /\ parseText = <<>>
    /\ parsePc = "idle"
    /\ cleanText = <<>>
    /\ strategyIdx = 0
    /\ strategyThrew = {}
    /\ bestResult = NoParseResult
    /\ parseResult = NoParseResult
    /\ nParses = 0
    /\ parsed = <<>>

\* handleConfirmTranscript not in use.
ConfirmUnused ==
    /\ screenTranscript = <<>>
    /\ confirmedText = <<>>
    /\ confirmPc = "idle"
    /\ sinkCalls = <<>>
    /\ alertTitle = "none"

\* The mock tasks loadTasksFromStorage() stores when the storage is empty.
MockTasks == <<1, 2, 3>>

\* No task is being added.
TasksUnused ==
    /\ ctxTasks = MockTasks
    /\ storedTasks = MockTasks
    /\ closureTasks = MockTasks
    /\ updatedTasks = <<>>
    /\ saving = <<>>
    /\ nTitles = 0
    /\ addPc = "idle"
    /\ nConfirms = 0

\* No call of the recorder by itself is being studied.
DeviceUnused ==
    /\ currentRecordingPath = 0
    /\ op = <<>>
    /\ nOps = 0

Init ==
    /\ cfg \in Configurations
    /\ SessionInit
    /\ GateUnused
    /\ ParseUnused
    /\ ConfirmUnused
    /\ TasksUnused
    /\ DeviceUnused

\* ------------------------------------------------------ startListening()

\* startListening() is called: it awaits requestMicrophonePermission().
StartListening(i) ==
    /\ i = nStarts + 1
    /\ i <= MaxStarts
    /\ nStarts' = i
    /\ call' = [call EXCEPT ![i] = "perm"]
    /\ UNCHANGED <<gateVars, parseVars, confirmVars, taskVars, deviceVars, cfg, sessionVars, recorderVars, rejection, backend, rec,
                   timerVars, job, transcription, deactivated, stopVars, cbVars>>

\* StartRefused with the state update made before the permission check: the
\* session enters LISTENING and invokes onStart, then fails.
StartRefusedEarlyListening(i, outcome) ==
    /\ call[i] = "perm"
    /\ outcome \in {"denied", "throws"}
    /\ state' = ERROR
    /\ InvokeNewCycle(1, 1, "onError")
    /\ NoOnResult
    /\ call' = [call EXCEPT ![i] = "rejected"]
    /\ rejection' = [rejection EXCEPT
                       ![i] = IF outcome = "denied" THEN PermissionDenied ELSE PermissionThrew]
    /\ UNCHANGED <<gateVars, parseVars, confirmVars, taskVars, deviceVars, cfg, recognition, timeoutId, cloudSpeechService, audioRecorder,
                   recorderVars, backend, nStarts, rec, timerVars, job, transcription,
                   deactivated, stopVars>>

\* The permission gate denies ("denied") or its promise rejects ("throws"):
\* the catch block of startListening.
StartRefused(i, outcome) ==
    /\ call[i] = "perm"
    /\ outcome \in {"denied", "throws"}
    /\ state' = ERROR
    /\ Invoke(0, 0, 1, 0, "onError")
    /\ NoOnResult
    /\ call' = [call EXCEPT ![i] = "rejected"]
    /\ rejection' = [rejection EXCEPT
                       ![i] = IF outcome = "denied" THEN PermissionDenied ELSE PermissionThrew]
    /\ UNCHANGED <<gateVars, parseVars, confirmVars, taskVars, deviceVars, cfg, recognition, timeoutId, cloudSpeechService, audioRecorder,
                   recorderVars, backend, nStarts, rec, timerVars, job, transcription,
                   deactivated, stopVars>>

\* StartWeb with ERROR treated as terminal: a start call made in ERROR
\* returns without touching the session.
StartWebErrorTerminal(i) ==
    /\ call[i] = "perm"
    /\ cfg.OS = "web"
    /\ IF state = ERROR
       THEN /\ call' = [call EXCEPT ![i] = "done"]
            /\ UNCHANGED <<state, recognition, rec, timeoutId, tmo, backend, rejection,
                           onStartCalls, onEndCalls, onErrorCalls, cycFinals, cycEnds,
                           cycErrors, lastCb>>
       ELSE IF cfg.hasRecognition
       THEN /\ state' = LISTENING
            /\ InvokeNewCycle(1, 0, "onStart")
            /\ recognition' = i
            /\ rec' = [rec EXCEPT ![i] = "starting"]
            /\ timeoutId' = i
            /\ tmo' = [tmo EXCEPT ![i] = "armed"]
            /\ backend' = [backend EXCEPT ![i] = "web"]
            /\ call' = [call EXCEPT ![i] = "done"]
            /\ UNCHANGED rejection
       ELSE /\ state' = ERROR
            /\ InvokeNewCycle(1, 2, "onError")
            /\ call' = [call EXCEPT ![i] = "rejected"]
            /\ rejection' = [rejection EXCEPT ![i] = NotSupported]
            /\ UNCHANGED <<recognition, rec, timeoutId, tmo, backend>>
    /\ UNCHANGED <<gateVars, parseVars, confirmVars, taskVars, deviceVars, cfg, cloudSpeechService, audioRecorder, recorderVars, nStarts,
                   chain, fb, job, transcription, deactivated, stopVars, lastResult,
                   onResultParity>>

\* Permission granted on the web: startWebSpeechRecognition(), which throws
\* when the browser has no recognizer (caught twice: there and in startListening).
StartWeb(i) ==
    /\ call[i] = "perm"
    /\ cfg.OS = "web"
    /\ IF cfg.hasRecognition
       THEN /\ state' = LISTENING
            /\ InvokeNewCycle(1, 0, "onStart")
            /\ recognition' = i
            /\ rec' = [rec EXCEPT ![i] = "starting"]
            /\ timeoutId' = i
            /\ tmo' = [tmo EXCEPT ![i] = "armed"]
            /\ backend' = [backend EXCEPT ![i] = "web"]
            /\ call' = [call EXCEPT ![i] = "done"]
            /\ UNCHANGED rejection
       ELSE /\ state' = ERROR
            /\ InvokeNewCycle(1, 2, "onError")
            /\ call' = [call EXCEPT ![i] = "rejected"]
            /\ rejection' = [rejection EXCEPT ![i] = NotSupported]
            /\ UNCHANGED <<recognition, rec, timeoutId, tmo, backend>>
    /\ UNCHANGED <<gateVars, parseVars, confirmVars, taskVars, deviceVars, cfg, cloudSpeechService, audioRecorder, recorderVars, nStarts,
                   chain, fb, job, transcription, deactivated, stopVars, lastResult, onResultParity>>

\* simulateEnhancedMobileSpeechRecognition(): setTimeout(addNextWord, 800)
\* with wordIndex = 0.
NewChain == [phase |-> "word", idx |-> 0]

\* Permission granted on a native platform: startRealMobileSpeechRecognition()
\* up to its first wait for I/O.  init is the outcome of createAudioRecorder()
\* when the recorder does not exist yet.
StartNative(i, init) ==
    /\ call[i] = "perm"
    /\ cfg.OS = "native"
    /\ init \in {"ok", "fail"}
    /\ (init = "fail") => (cfg.configured /\ ~audioRecorder)
    /\ IF ~cfg.configured
       THEN \* not configured: the simulation, and no timeout timer
            /\ state' = LISTENING
            /\ InvokeNewCycle(1, 0, "onStart")
            /\ chain' = [chain EXCEPT ![i] = NewChain]
            /\ backend' = [backend EXCEPT ![i] = "sim"]
            /\ call' = [call EXCEPT ![i] = "done"]
            /\ UNCHANGED <<cloudSpeechService, audioRecorder>>
       ELSE IF init = "fail"
       THEN \* createAudioRecorder() throws: catch, fall back to the simulation
            /\ state' = ERROR
            /\ InvokeNewCycle(1, 1, "onError")
            /\ chain' = [chain EXCEPT ![i] = NewChain]
            /\ backend' = [backend EXCEPT ![i] = "sim"]
            /\ call' = [call EXCEPT ![i] = "done"]
            /\ cloudSpeechService' = TRUE
            /\ UNCHANGED audioRecorder
       ELSE IF isRecording
       THEN \* startRecording() throws 'Recording already in progress'
            /\ state' = ERROR
            /\ InvokeNewCycle(2, 1, "onError")
            /\ chain' = [chain EXCEPT ![i] = NewChain]
            /\ backend' = [backend EXCEPT ![i] = "sim"]
            /\ call' = [call EXCEPT ![i] = "done"]
            /\ cloudSpeechService' = TRUE
            /\ audioRecorder' = TRUE
       ELSE \* startRecording() awaits generateRecordingFilePath()
            /\ state' = LISTENING
            /\ InvokeNewCycle(2, 0, "onStart")
            /\ backend' = [backend EXCEPT ![i] = "cloud"]
            /\ call' = [call EXCEPT ![i] = "path"]
            /\ cloudSpeechService' = TRUE
            /\ audioRecorder' = TRUE
            /\ UNCHANGED chain
    /\ UNCHANGED <<gateVars, parseVars, confirmVars, taskVars, deviceVars, cfg, recognition, timeoutId, recorderVars, rejection, nStarts,
                   rec, fb, tmo, job, transcription, deactivated, stopVars, lastResult, onResultParity>>

\* The catch block of startRealMobileSpeechRecognition() after startRecording()
\* failed in start call i: ERROR, onError, fall back to the simulation.
RecordingFailed(i) ==
    /\ isRecording' = FALSE
    /\ state' = ERROR
    /\ Invoke(0, 0, 1, 0, "onError")
    /\ chain' = [chain EXCEPT ![i] = NewChain]
    /\ backend' = [backend EXCEPT ![i] = "sim"]
    /\ call' = [call EXCEPT ![i] = "done"]

\* startRecording(): generateRecordingFilePath() has returned (ok) or thrown.
RecordingPath(i, ok) ==
    /\ call[i] = "path"
    /\ IF ok
       THEN /\ isRecording' = TRUE
            /\ recOwner' = i
            /\ call' = [call EXCEPT ![i] = "write"]
            /\ UNCHANGED <<state, chain, backend, cbVars>>
       ELSE /\ RecordingFailed(i)
            /\ UNCHANGED <<recOwner, lastResult, onResultParity>>
    /\ UNCHANGED <<gateVars, parseVars, confirmVars, taskVars, deviceVars, cfg, recognition, timeoutId, cloudSpeechService, audioRecorder,
                   rejection, nStarts, rec, fb, tmo, job, transcription, deactivated, stopVars>>

\* startRecording(): createMockAudioFile() has returned (ok) or thrown; on
\* success provideMobileRecordingFeedback() and the timeout timer follow.
RecordingWrite(i, ok) ==
    /\ call[i] = "write"
    /\ IF ok
       THEN /\ fb' = [fb EXCEPT ![i] = IF cfg.partialResults THEN {1, 2} ELSE {}]
            /\ timeoutId' = i
            /\ tmo' = [tmo EXCEPT ![i] = "armed"]
            /\ call' = [call EXCEPT ![i] = "done"]
            /\ UNCHANGED <<state, isRecording, chain, backend, cbVars>>
       ELSE /\ RecordingFailed(i)
            /\ UNCHANGED <<fb, timeoutId, tmo, lastResult, onResultParity>>
    /\ UNCHANGED <<gateVars, parseVars, confirmVars, taskVars, deviceVars, cfg, recognition, cloudSpeechService, audioRecorder, recOwner,
                   rejection, nStarts, rec, job, transcription, deactivated, stopVars>>

\* ------------------------------------------------- stopping the recording

\* recognition.stop() on recognizer r: the browser stops listening; its end
\* event follows later.
RecognizerStop(r) ==
    [rec EXCEPT ![r] = IF @ \in {"starting", "running"} THEN "stopping" ELSE @]

\* stopRealMobileRecording() up to its first wait for I/O.  The recorder and
\* the cloud service exist whenever it is called.  stopRecording() throws
\* 'No recording in progress' when nothing is being recorded (caught: ERROR,
\* onError); otherwise it clears isRecording and awaits RNFS.stat.
StopRealMobileRecording ==
    IF isRecording
    THEN /\ state' = PROCESSING
         /\ isRecording' = FALSE
         /\ job' = [job EXCEPT ![recOwner] = "stat"]
         /\ UNCHANGED <<transcription, cbVars>>
    ELSE /\ state' = ERROR
         /\ Invoke(0, 0, 1, 0, "onError")
         /\ UNCHANGED <<isRecording, job, transcription, lastResult, onResultParity>>

\* stopListening() with a guard that returns early, without onEnd, when the
\* session is already IDLE.
StopListeningSilentWhenIdle ==
    /\ nStops < MaxStops
    /\ nStops' = nStops + 1
    /\ stopFrom' = state
    /\ tmo' = IF timeoutId # 0
              THEN [tmo EXCEPT ![timeoutId] = IF @ = "armed" THEN "cleared" ELSE @]
              ELSE tmo
    /\ timeoutId' = 0
    /\ rec' = IF recognition # 0 THEN RecognizerStop(recognition) ELSE rec
    /\ recognition' = 0
    /\ deactivated' = [i \in Calls |->
                          \/ deactivated[i]
                          \/ /\ backend[i] # "none"
                             /\ ~(audioRecorder /\ isRecording /\ i = recOwner)]
    /\ IF audioRecorder /\ isRecording
       THEN StopRealMobileRecording
       ELSE /\ state' = IDLE
            /\ IF state = IDLE
               THEN UNCHANGED <<onStartCalls, onEndCalls, onErrorCalls, cycFinals,
                                cycEnds, cycErrors, lastCb>>
               ELSE Invoke(0, 1, 0, 0, "onEnd")
            /\ UNCHANGED <<isRecording, job, transcription, lastResult, onResultParity>>
    /\ UNCHANGED <<gateVars, parseVars, confirmVars, taskVars, deviceVars, cfg, cloudSpeechService, audioRecorder, recOwner, callVars,
                   chain, fb>>

\* stopListening()
StopListening ==
    /\ nStops < MaxStops
    /\ nStops' = nStops + 1
    /\ stopFrom' = state
    /\ tmo' = IF timeoutId # 0
              THEN [tmo EXCEPT ![timeoutId] = IF @ = "armed" THEN "cleared" ELSE @]
              ELSE tmo
    /\ timeoutId' = 0
    /\ rec' = IF recognition # 0 THEN RecognizerStop(recognition) ELSE rec
    /\ recognition' = 0
    /\ deactivated' = [i \in Calls |->
                          \/ deactivated[i]
                          \/ /\ backend[i] # "none"
                             /\ ~(audioRecorder /\ isRecording /\ i = recOwner)]
    /\ IF audioRecorder /\ isRecording
       THEN StopRealMobileRecording
       ELSE /\ state' = IDLE
            /\ Invoke(0, 1, 0, 0, "onEnd")
            /\ UNCHANGED <<isRecording, job, transcription, lastResult, onResultParity>>
    /\ UNCHANGED <<gateVars, parseVars, confirmVars, taskVars, deviceVars, cfg, cloudSpeechService, audioRecorder, recOwner, callVars,
                   chain, fb>>

\* stopRealMobileRecording(): audioRecorder.stopRecording() has returned, with
\* success (ok) or with success=false after RNFS.stat failed.
RecordingStopped(i, ok) ==
    /\ job[i] = "stat"
    /\ IF ok
       THEN /\ job' = [job EXCEPT ![i] = "transcribe"]
            /\ UNCHANGED <<state, cbVars>>
       ELSE /\ job' = [job EXCEPT ![i] = "done"]
            /\ state' = ERROR
            /\ Invoke(0, 0, 1, 0, "onError")
            /\ NoOnResult
    /\ deactivated' = [deactivated EXCEPT ![i] = @ \/ ~ok]
    /\ UNCHANGED transcription
    /\ UNCHANGED <<gateVars, parseVars, confirmVars, taskVars, deviceVars, cfg, recognition, timeoutId, cloudSpeechService, audioRecorder,
                   recorderVars, callVars, rec, timerVars, stopVars>>

\* Confidence values (hundredths) the cloud service may report for a transcript.
CloudConfidences == {0, 90}

\* Transcribed, with a CloudSpeechResult that has success=false treated as an
\* exception: the catch block of stopRealMobileRecording() runs instead.
TranscribedFailureThrows(i, r) ==
    /\ job[i] = "transcribe"
    /\ job' = [job EXCEPT ![i] = "done"]
    /\ transcription' = r
    /\ IF r.success
       THEN /\ OnResultCall(Result(i, r.transcript, IF r.transcript # "" THEN r.confidence ELSE 0, TRUE))
            /\ state' = IDLE
            /\ Invoke(0, 1, 0, 1, "onEnd")
       ELSE /\ NoOnResult
            /\ state' = ERROR
            /\ Invoke(0, 0, 1, 0, "onError")
    /\ deactivated' = [deactivated EXCEPT ![i] = TRUE]
    /\ UNCHANGED <<gateVars, parseVars, confirmVars, taskVars, deviceVars, cfg, recognition, timeoutId, cloudSpeechService, audioRecorder,
                   recorderVars, callVars, rec, timerVars, stopVars>>

\* stopRealMobileRecording(): transcribeAudio() has returned.  r is its
\* CloudSpeechResult: success with a transcript, or a failure (network or API
\* error, no results, no alternatives), which transcribeAudio returns as
\* {transcript: '', confidence: 0, success: false}.
Transcribed(i, r) ==
    /\ job[i] = "transcribe"
    /\ job' = [job EXCEPT ![i] = "done"]
    /\ transcription' = r
    /\ OnResultCall(IF r.success /\ r.transcript # ""
                    THEN Result(i, r.transcript, r.confidence, TRUE)
                    ELSE Result(i, "", 0, TRUE))
    /\ state' = IDLE
    /\ Invoke(0, 1, 0, 1, "onEnd")
    /\ deactivated' = [deactivated EXCEPT ![i] = TRUE]
    /\ UNCHANGED <<gateVars, parseVars, confirmVars, taskVars, deviceVars, cfg, recognition, timeoutId, cloudSpeechService, audioRecorder,
                   recorderVars, callVars, rec, timerVars, stopVars>>

\* The values transcribeAudio() can return.
CloudSpeechResults ==
    [success : {TRUE}, transcript : {"", "text"}, confidence : CloudConfidences,
     error : {"none"}]
        \cup [success : {FALSE}, transcript : {""}, confidence : {0},
              error : TranscriptionErrors]

\* --------------------------------------------------------------- timers

\* The timeout timer of start call i fires.
TimeoutFires(i) ==
    /\ tmo[i] = "armed"
    /\ tmo' = [tmo EXCEPT ![i] = "fired"]
    /\ IF backend[i] = "web"
       THEN \* startWebSpeechRecognition: if (this.recognition) this.recognition.stop()
            /\ rec' = IF recognition # 0 THEN RecognizerStop(recognition) ELSE rec
            /\ UNCHANGED <<state, isRecording, job, transcription, cbVars>>
       ELSE \* startRealMobileSpeechRecognition: if LISTENING, stopRealMobileRecording()
            /\ IF state = LISTENING
               THEN StopRealMobileRecording
               ELSE UNCHANGED <<state, isRecording, job, transcription, cbVars>>
            /\ UNCHANGED rec
    /\ UNCHANGED <<gateVars, parseVars, confirmVars, taskVars, deviceVars, cfg, recognition, timeoutId, cloudSpeechService, audioRecorder,
                   recOwner, callVars, chain, fb, deactivated, stopVars>>

\* Confidence of the interim result after k of the phrase's words.
InterimConfidence(k) == 60 + (30 * k) \div NumWords

\* addNextWord without the options.partialResults check around the interim
\* result.
AddNextWordAlwaysInterim(i) ==
    /\ chain[i].phase = "word"
    /\ IF chain[i].idx < NumWords /\ state = LISTENING
       THEN /\ chain' = [chain EXCEPT ![i] =
                           [phase |-> IF @.idx + 1 < NumWords THEN "word" ELSE "final",
                            idx |-> @.idx + 1]]
            /\ OnResultCall(Result(i, "text", InterimConfidence(chain[i].idx + 1), FALSE))
            /\ Invoke(0, 0, 0, 0, "onResult")
       ELSE /\ chain' = [chain EXCEPT ![i] = [phase |-> "done", idx |-> @.idx]]
            /\ UNCHANGED cbVars
    /\ UNCHANGED <<gateVars, parseVars, confirmVars, taskVars, deviceVars, cfg, sessionVars, recorderVars, callVars, rec, fb, tmo, job,
                   transcription, deactivated, stopVars>>

\* addNextWord of simulation i runs.
AddNextWord(i) ==
    /\ chain[i].phase = "word"
    /\ IF chain[i].idx < NumWords /\ state = LISTENING
       THEN /\ chain' = [chain EXCEPT ![i] =
                           [phase |-> IF @.idx + 1 < NumWords THEN "word" ELSE "final",
                            idx |-> @.idx + 1]]
            /\ IF cfg.partialResults
               THEN /\ OnResultCall(Result(i, "text", InterimConfidence(chain[i].idx + 1), FALSE))
                    /\ Invoke(0, 0, 0, 0, "onResult")
               ELSE UNCHANGED cbVars
       ELSE /\ chain' = [chain EXCEPT ![i] = [phase |-> "done", idx |-> @.idx]]
            /\ UNCHANGED cbVars
    /\ UNCHANGED <<gateVars, parseVars, confirmVars, taskVars, deviceVars, cfg, sessionVars, recorderVars, callVars, rec, fb, tmo, job, transcription,
                   deactivated, stopVars>>

\* The timer that sends simulation i's final result fires.
SendFinal(i) ==
    /\ chain[i].phase = "final"
    /\ chain' = [chain EXCEPT ![i] = [phase |-> "done", idx |-> @.idx]]
    /\ IF state = LISTENING
       THEN /\ OnResultCall(Result(i, "text", 95, TRUE))
            /\ Invoke(0, 0, 0, 1, "onResult")
       ELSE UNCHANGED cbVars
    /\ UNCHANGED <<gateVars, parseVars, confirmVars, taskVars, deviceVars, cfg, sessionVars, recorderVars, callVars, rec, fb, tmo, job, transcription,
                   deactivated, stopVars>>

\* Confidence of the k-th feedback message of provideMobileRecordingFeedback().
FeedbackConfidence(k) == IF k = 1 THEN 50 ELSE 70

\* The k-th feedback timer (500 ms, 2000 ms) of recording i fires.
FeedbackFires(i, k) ==
    /\ k \in fb[i]
    /\ \A j \in fb[i] : k <= j
    /\ fb' = [fb EXCEPT ![i] = @ \ {k}]
    /\ IF state = LISTENING
       THEN /\ OnResultCall(Result(i, "text", FeedbackConfidence(k), FALSE))
            /\ Invoke(0, 0, 0, 0, "onResult")
       ELSE UNCHANGED cbVars
    /\ UNCHANGED <<gateVars, parseVars, confirmVars, taskVars, deviceVars, cfg, sessionVars, recorderVars, callVars, rec, chain, tmo, job, transcription,
                   deactivated, stopVars>>

\* ------------------------------------------------- the browser recognizer

\* recognition.onstart
OnStart(i) ==
    /\ rec[i] = "starting"
    /\ rec' = [rec EXCEPT ![i] = "running"]
    /\ state' = LISTENING
    /\ UNCHANGED <<gateVars, parseVars, confirmVars, taskVars, deviceVars, cfg, recognition, timeoutId, cloudSpeechService, audioRecorder,
                   recorderVars, callVars, timerVars, job, transcription, deactivated,
                   stopVars, cbVars>>

\* recognition.onresult with one result.  The recognizer is continuous: it
\* delivers a final result for every utterance, and interim results only with
\* interimResults (= options.partialResults) set; after stop() it may return
\* one more final result, for the audio it already has.  The confidence is the
\* handler's default for a result that carries none.
OnResult(i, final) ==
    /\ IF final
       THEN rec[i] \in {"running", "stopping"} /\ cycFinals < MaxFinals
       ELSE rec[i] = "running" /\ cfg.partialResults
    /\ rec' = [rec EXCEPT ![i] = IF @ = "stopping" THEN "flushed" ELSE @]
    /\ OnResultCall(Result(i, "text", IF final THEN 90 ELSE 70, final))
    /\ Invoke(0, 0, 0, IF final THEN 1 ELSE 0, "onResult")
    /\ UNCHANGED <<gateVars, parseVars, confirmVars, taskVars, deviceVars, cfg, sessionVars, recorderVars, callVars, timerVars, job, transcription,
                   deactivated, stopVars>>

\* recognition.onerror; the recognizer's end event follows.
OnError(i) ==
    /\ rec[i] \in {"starting", "running"}
    /\ rec' = [rec EXCEPT ![i] = "failed"]
    /\ state' = ERROR
    /\ Invoke(0, 0, 1, 0, "onError")
    /\ UNCHANGED <<gateVars, parseVars, confirmVars, taskVars, deviceVars, cfg, recognition, timeoutId, cloudSpeechService, audioRecorder,
                   recorderVars, callVars, timerVars, job, transcription, deactivated,
                   stopVars, lastResult, onResultParity>>

\* recognition.onend: after stop(), after an error, or when the recognizer
\* ends by itself.
OnEnd(i) ==
    /\ rec[i] \in {"running", "stopping", "flushed", "failed"}
    /\ rec' = [rec EXCEPT ![i] = "ended"]
    /\ state' = IDLE
    /\ recognition' = 0
    /\ Invoke(0, 1, 0, 0, "onEnd")
    /\ UNCHANGED <<gateVars, parseVars, confirmVars, taskVars, deviceVars, cfg, timeoutId, cloudSpeechService, audioRecorder, recorderVars,
                   callVars, timerVars, job, transcription, deactivated, stopVars, lastResult, onResultParity>>

\* ------------------------------------------------------- specification

Next ==
    \/ \E i \in Calls : StartListening(i)
    \/ \E i \in Calls, outcome \in {"denied", "throws"} : StartRefused(i, outcome)
    \/ \E i \in Calls : StartWeb(i)
    \/ \E i \in Calls, init \in {"ok", "fail"} : StartNative(i, init)
    \/ \E i \in Calls, ok \in BOOLEAN : RecordingPath(i, ok)
    \/ \E i \in Calls, ok \in BOOLEAN : RecordingWrite(i, ok)
    \/ StopListening
    \/ \E i \in Calls, ok \in BOOLEAN : RecordingStopped(i, ok)
    \/ \E i \in Calls, r \in CloudSpeechResults : Transcribed(i, r)
    \/ \E i \in Calls : TimeoutFires(i)
    \/ \E i \in Calls : AddNextWord(i)
    \/ \E i \in Calls : SendFinal(i)
    \/ \E i \in Calls, k \in {1, 2} : FeedbackFires(i, k)
    \/ \E i \in Calls : OnStart(i)
    \/ \E i \in Calls, final \in BOOLEAN : OnResult(i, final)
    \/ \E i \in Calls : OnError(i)
    \/ \E i \in Calls : OnEnd(i)

Spec == Init /\ [][Next]_vars

TypeOK ==
    /\ state \in SpeechState
    /\ recognition \in 0..MaxStarts
    /\ timeoutId \in 0..MaxStarts
    /\ call \in [Calls -> {"none", "perm", "path", "write", "done", "rejected"}]
    /\ backend \in [Calls -> {"none", "web", "sim", "cloud"}]
    /\ rec \in [Calls -> {"none", "starting", "running", "stopping", "flushed", "failed",
                          "ended"}]
    /\ tmo \in [Calls -> {"none", "armed", "fired", "cleared"}]
    /\ job \in [Calls -> {"none", "stat", "transcribe", "done"}]

\* ------------------------------------------------------------- claims

InFlight == {"perm", "path", "write"}

\* The start calls that passed the permission gate.
GrantedStarts ==
    {i \in Calls : call[i] \notin {"none", "perm"}
                   /\ rejection[i] \notin {PermissionDenied, PermissionThrew}}

\* Nothing is pending: no start call awaits I/O, no recognizer is alive, no
\* timer is armed, no recording is being stopped or transcribed.  Only a new
\* startListening() or stopListening() call can change the session now.
Quiescent ==
    \A i \in Calls :
        /\ call[i] \notin InFlight
        /\ rec[i] \in {"none", "ended"}
        /\ chain[i].phase \in {"none", "done"}
        /\ fb[i] = {}
        /\ tmo[i] # "armed"
        /\ job[i] \in {"none", "done"}

\* Backend i can still deliver events to the session.
CanEmit(i) ==
    \/ rec[i] \in {"starting", "running"}
    \/ state = LISTENING /\ (chain[i].phase \in {"word", "final"} \/ fb[i] # {})
    \/ isRecording /\ recOwner = i

\* The session is inside a listening cycle: startListening has set LISTENING
\* and the session has not returned to IDLE or ERROR since.
InCycle ==
    /\ onStartCalls > 0
    /\ state \in {LISTENING, PROCESSING}
    /\ cycEnds = 0
    /\ cycErrors = 0

\* C1: a session started once with permission granted, never stopped by the
\* user, that has received its final result is, once nothing is pending any
\* more, back in IDLE with onEnd invoked exactly once, after the final onResult.
C1_EndsOnceAfterFinal ==
    (/\ nStarts = 1
     /\ nStops = 0
     /\ call[1] = "done"
     /\ cycFinals >= 1
     /\ onErrorCalls = 0
     /\ Quiescent)
    => (state = IDLE /\ onEndCalls = 1 /\ lastCb = "onEnd")

\* C2: at most one backend instance can emit events into the session at any time.
C2_OneActiveBackend == Cardinality({i \in Calls : CanEmit(i)}) <= 1

\* C3: within one listening cycle onResult is invoked with isFinal=true at
\* most once.
C3_OneFinalPerCycle == InCycle => cycFinals <= 1

\* C4: when the permission gate denies, startListening() rejects with
\* 'Microphone permission denied', onError is invoked exactly once, the state
\* is ERROR, and the call invokes neither onStart nor onResult nor onEnd.
C4_DeniedStart ==
    [][\A i \in Calls :
          (rejection[i] = "none" /\ rejection'[i] = PermissionDenied)
          => /\ call'[i] = "rejected"
             /\ state' = ERROR
             /\ onErrorCalls' = onErrorCalls + 1
             /\ lastCb' = "onError"
             /\ onStartCalls' = onStartCalls
             /\ onEndCalls' = onEndCalls
             /\ onResultParity' = onResultParity
             /\ lastResult' = lastResult]_vars

\* C4 witness: a start call was denied and the session is in ERROR.
C4_Witness ==
    \E i \in Calls :
        /\ rejection[i] = PermissionDenied
        /\ state = ERROR
        /\ onErrorCalls = 1
        /\ onStartCalls = 0

\* C5: once stopListening(), called while LISTENING or PROCESSING, has
\* completed and nothing is pending any more, the state is IDLE, no timeout
\* timer is armed, no backend can emit, and onEnd was invoked exactly once in
\* that cycle.
C5_StopEndsCycle ==
    (/\ nStarts = 1
     /\ nStops = 1
     /\ call[1] = "done"
     /\ stopFrom \in {LISTENING, PROCESSING}
     /\ Quiescent)
    => /\ state = IDLE
       /\ \A i \in Calls : tmo[i] # "armed" /\ ~CanEmit(i)
       /\ cycEnds = 1

\* C6: a backend that stopListening() has deactivated delivers no further
\* onResult to the session.
C6_SilentAfterStop ==
    [][onResultParity' # onResultParity => ~deactivated[lastResult'.src]]_vars

\* C7: every granted start that activated a backend has armed a timeout timer.
C7_TimeoutArmed ==
    \A i \in Calls : (call[i] = "done" /\ backend[i] # "none") => tmo[i] # "none"

\* C8: once no start call is in flight, onStart has been invoked once per
\* start call that was granted permission, and none of those calls failed on
\* a platform that has a backend.
C8_OnStartPerGrantedStart ==
    (\A i \in Calls : call[i] \notin InFlight)
    => /\ onStartCalls = Cardinality(GrantedStarts)
       /\ (cfg.OS = "web" => cfg.hasRecognition)
              => \A i \in GrantedStarts : call[i] = "done"

\* A backend error is reported in this step: onError is invoked, and not by
\* the permission gate refusing a start call.
BackendErrorStep ==
    /\ onErrorCalls' > onErrorCalls
    /\ \A i \in Calls : rejection'[i] \in {PermissionDenied, PermissionThrew}
                        => rejection[i] = rejection'[i]

\* C9: after a backend error the session is in ERROR, and no recognizer, no
\* recording, no simulation and no timeout timer remains active.
C9_ErrorCleansUp ==
    [][BackendErrorStep
       => /\ state' = ERROR
          /\ recognition' = 0
          /\ ~isRecording'
          /\ \A i \in Calls :
                /\ tmo'[i] # "armed"
                /\ rec'[i] \notin {"starting", "running"}
                /\ chain'[i].phase \notin {"word", "final"}]_vars

\* A start call passes the permission gate in this step.
StartPassesGate == \E i \in Calls : call[i] = "perm" /\ call'[i] # "perm"

\* C10: the state changes only along the defined transitions.
C10_DefinedTransitions ==
    [][state' # state
       => \/ state' = LISTENING /\ StartPassesGate
          \/ state' = PROCESSING /\ state = LISTENING
          \/ state' = IDLE /\ state \in {LISTENING, PROCESSING}
          \/ state' = ERROR]_vars

\* C11: stopListening() on a session that was never started leaves the state
\* IDLE, reports no error and invokes onEnd exactly once.
C11_StopBeforeStart ==
    [][(nStarts = 0 /\ nStops' = nStops + 1)
       => /\ state = IDLE
          /\ state' = IDLE
          /\ onEndCalls' = onEndCalls + 1
          /\ lastCb' = "onEnd"
          /\ onErrorCalls' = onErrorCalls
          /\ onStartCalls' = onStartCalls
          /\ onResultParity' = onResultParity]_vars

\* C11 witness: the session was stopped once without ever being started.
C11_Witness ==
    /\ nStarts = 0
    /\ nStops = 1
    /\ stopFrom = IDLE
    /\ state = IDLE
    /\ onEndCalls = 1
    /\ onErrorCalls = 0

\* transcribeAudio() returns to the stopRealMobileRecording() run of recording
\* i in this step.
TranscriptionReturns(i) == job[i] = "transcribe" /\ job'[i] = "done"

\* C12: a cloud transcription call that failed (the request could not be made
\* or was refused, or the API answered with an error) is reported through
\* onError and not through onResult.
C12_TranscriptionFailureIsError ==
    [][\A i \in Calls :
          (TranscriptionReturns(i) /\ transcription'.error \in {RequestFailed, ApiError})
          => /\ onErrorCalls' = onErrorCalls + 1
             /\ onResultParity' = onResultParity]_vars

\* C13: when the cloud service answers with no results or no alternatives,
\* the step that handles the answer delivers exactly one onResult, final, with
\* an empty transcript and confidence 0, invokes no onError, sets IDLE and
\* invokes onEnd last.
C13_NoSpeechIsEmptyFinal ==
    [][\A i \in Calls :
          (TranscriptionReturns(i)
           /\ transcription'.error \in {NoSpeechDetected, NoAlternatives})
          => /\ onResultParity' # onResultParity
             /\ lastResult' = Result(i, "", 0, TRUE)
             /\ cycFinals' = cycFinals + 1
             /\ onErrorCalls' = onErrorCalls
             /\ state' = IDLE
             /\ onEndCalls' = onEndCalls + 1
             /\ lastCb' = "onEnd"]_vars

\* C13 witness: a recording was transcribed to nothing, and the session is
\* back in IDLE after an empty final result, without any error.
C13_Witness ==
    \E i \in Calls :
        /\ job[i] = "done"
        /\ transcription.error \in {NoSpeechDetected, NoAlternatives}
        /\ lastResult = Result(i, "", 0, TRUE)
        /\ state = IDLE
        /\ lastCb = "onEnd"
        /\ onErrorCalls = 0

\* The backend variant the selection rule names for this platform.
SelectedBackend ==
    IF cfg.configured THEN "cloud"
    ELSE IF cfg.OS = "web" /\ cfg.hasRecognition THEN "web"
    ELSE "sim"

\* C14: a start call that passes the permission gate activates the backend
\* variant the selection rule names and leaves the session LISTENING; a
\* platform without a recognizer gets the simulation, not ERROR.  (Steps in
\* which the cloud backend itself fails to start are left to C9.)
C14_BackendSelection ==
    [][\A i \in Calls :
          (/\ call[i] = "perm"
           /\ call'[i] # "perm"
           /\ rejection'[i] \notin {PermissionDenied, PermissionThrew}
           /\ ~(cfg.configured /\ onErrorCalls' > onErrorCalls))
          => /\ backend'[i] = SelectedBackend
             /\ state' = LISTENING
             /\ onErrorCalls' = onErrorCalls]_vars

GRANTED == "granted"
DENIED == "denied"

\* The ways a getUserMedia() request can end: it resolves, or it rejects with
\* one of these errors.
MediaOutcomes == {"resolved", "NotAllowedError", "NotFoundError"}

GateEnvironments ==
    { e \in [OS : {"web", "ios", "android"}, mediaDevices : BOOLEAN] :
        e.OS # "web" => ~e.mediaDevices }

InitGate ==
    /\ cfg = [OS |-> "web", hasRecognition |-> TRUE, configured |-> FALSE,
              partialResults |-> TRUE]
    /\ SessionInit
    /\ ParseUnused
    /\ ConfirmUnused
    /\ TasksUnused
    /\ DeviceUnused
    /\ gateEnv \in GateEnvironments
    /\ gatePc = "idle"
    /\ gateCause = "none"
    /\ gateResult = NoPermissionResult
    /\ gateLog = <<>>

\* A return statement of requestMicrophonePermission(): the promise resolves
\* with result r after the platform answered with cause.
GateReturns(cause, r) ==
    /\ gatePc' = "returned"
    /\ gateCause' = cause
    /\ gateResult' = r
    /\ gateLog' = Append(gateLog, [cause |-> cause, granted |-> r.granted])

\* requestMicrophonePermission() is called and runs up to its await, or to
\* its return when it does not wait.
RequestMicrophonePermission ==
    /\ gatePc \in {"idle", "returned"}
    /\ Len(gateLog) < MaxGateCalls
    /\ IF gateEnv.OS = "web"
       THEN IF gateEnv.mediaDevices
            THEN /\ gatePc' = "getUserMedia"
                 /\ gateCause' = "none"
                 /\ UNCHANGED <<gateResult, gateLog>>
            ELSE \* navigator.mediaDevices is undefined: the inner catch
                 GateReturns("TypeError", PermissionResult(DENIED, FALSE, FALSE))
       ELSE GateReturns("unchecked", PermissionResult(GRANTED, TRUE, TRUE))
    /\ UNCHANGED <<speechVars, parseVars, confirmVars, taskVars, deviceVars, gateEnv>>

\* GetUserMediaSettles without a try block around the request: a rejection
\* leaves requestMicrophonePermission() as an exception.
GetUserMediaSettlesUncaught(outcome) ==
    /\ gatePc = "getUserMedia"
    /\ outcome \in MediaOutcomes
    /\ IF outcome = "resolved"
       THEN GateReturns(outcome, PermissionResult(GRANTED, FALSE, TRUE))
       ELSE /\ gatePc' = "threw"
            /\ gateCause' = outcome
            /\ UNCHANGED <<gateResult, gateLog>>
    /\ UNCHANGED <<speechVars, parseVars, confirmVars, taskVars, deviceVars, gateEnv>>

\* The getUserMedia() promise settles: the rest of the inner try block, or
\* the inner catch.
GetUserMediaSettles(outcome) ==
    /\ gatePc = "getUserMedia"
    /\ outcome \in MediaOutcomes
    /\ IF outcome = "resolved"
       THEN GateReturns(outcome, PermissionResult(GRANTED, FALSE, TRUE))
       ELSE GateReturns(outcome, PermissionResult(DENIED, FALSE, FALSE))
    /\ UNCHANGED <<speechVars, parseVars, confirmVars, taskVars, deviceVars, gateEnv>>

NextGate ==
    \/ RequestMicrophonePermission
    \/ \E outcome \in MediaOutcomes : GetUserMediaSettles(outcome)

SpecGate == InitGate /\ [][NextGate]_vars

\* C17: requestMicrophonePermission() never throws: a call whose platform
\* request failed returns granted=false with status DENIED, and on a native
\* platform every call returns granted=true without asking the platform.
C17_GateNeverThrows ==
    /\ gatePc # "threw"
    /\ gatePc = "returned"
       => /\ gateCause \notin {"resolved", "unchecked"}
             => (~gateResult.granted /\ gateResult.status = DENIED)
          /\ gateEnv.OS # "web"
             => (gateResult.granted /\ gateResult.status = GRANTED
                 /\ gateCause = "unchecked")
    /\ \A k \in 1..Len(gateLog) :
          /\ gateLog[k].cause \notin {"resolved", "unchecked"} => ~gateLog[k].granted
          /\ gateEnv.OS # "web" => gateLog[k].granted

\* C17 witness: on the web a getUserMedia() request was rejected and the call
\* returned a denial.
C17_Witness ==
    /\ gateEnv.OS = "web"
    /\ gatePc = "returned"
    /\ gateCause = "NotAllowedError"
    /\ gateResult = PermissionResult(DENIED, FALSE, FALSE)

(***************************************************************************)
(* Part 3: TaskParser (services/taskParser.ts).                            *)
(*                                                                         *)
(* A string is a sequence of atoms.  An atom is a run of word characters   *)
(* ("buy", "then", "3") or one character that is not a word character      *)
(* (" ", ",", ":", "&").  Adjacent word atoms form one word: "streng",     *)
(* "then" is the word "strengthen".  The atom "^" has no character of its  *)
(* own: it says that the first letter of the atom after it is upper-case.  *)
(* A string's length is the sum of its atoms' lengths, and the regular     *)
(* expressions of the parser are translated atom by atom (a word boundary  *)
(* \b lies between a word atom and an atom that is not one).               *)
(***************************************************************************)

Marker == "^"
Space == " "
NonWordAtoms == {" ", ",", ".", ";", ":", "&", "+", "'"}
DigitAtoms == {"3"}

IsWordAtom(a) == a \notin NonWordAtoms /\ a # Marker
IsLetterAtom(a) == IsWordAtom(a) /\ a \notin DigitAtoms

\* String.prototype.length
AtomLen(a) == IF a = Marker THEN 0 ELSE Len(a)
RECURSIVE CharLen(_)
CharLen(s) == IF s = <<>> THEN 0 ELSE AtomLen(Head(s)) + CharLen(Tail(s))

\* String.prototype.trim
RECURSIVE TrimStart(_)
TrimStart(s) == IF s # <<>> /\ Head(s) = Space THEN TrimStart(Tail(s)) ELSE s
RECURSIVE TrimEnd(_)
TrimEnd(s) ==
    IF s # <<>> /\ s[Len(s)] = Space THEN TrimEnd(SubSeq(s, 1, Len(s) - 1)) ELSE s
Trim(s) == TrimEnd(TrimStart(s))

\* String.prototype.toLowerCase
ToLowerCase(s) == SelectSeq(s, LAMBDA a : a # Marker)

\* The number of consecutive spaces of s from index i on.
RECURSIVE SpacesAt(_, _)
SpacesAt(s, i) == IF i <= Len(s) /\ s[i] = Space THEN 1 + SpacesAt(s, i + 1) ELSE 0

\* s from index i on
From(s, i) == SubSeq(s, i, Len(s))

\* s continues with p at index i.
StartsWithAt(s, i, p) == i + Len(p) - 1 <= Len(s) /\ SubSeq(s, i, i + Len(p) - 1) = p

\* String.prototype.includes (case-sensitive: p is in lower case)
Includes(s, p) ==
    \E i \in 1..Len(s) : StartsWithAt(s, i, p) /\ (i = 1 \/ s[i - 1] # Marker)

\* .replace(/\s+/g, ' ')
RECURSIVE CollapseSpaces(_)
CollapseSpaces(s) ==
    IF s = <<>> THEN <<>>
    ELSE IF Head(s) = Space
    THEN <<Space>> \o CollapseSpaces(From(s, 1 + SpacesAt(s, 1)))
    ELSE <<Head(s)>> \o CollapseSpaces(Tail(s))

\* .replace(/[,;]\s*and\s+/gi, ' and '), from index i on
RECURSIVE ReplaceCommaAnd(_, _)
ReplaceCommaAnd(s, i) ==
    IF i > Len(s) THEN <<>>
    ELSE LET j == i + 1 + SpacesAt(s, i + 1)
             m == SpacesAt(s, j + 1)
         IN IF s[i] \in {",", ";"} /\ j <= Len(s) /\ s[j] = "and" /\ m >= 1
            THEN <<Space, "and", Space>> \o ReplaceCommaAnd(s, j + 1 + m)
            ELSE <<s[i]>> \o ReplaceCommaAnd(s, i + 1)

\* .replace(/\s*then\s+/gi, ' then '), from index i on.  The pattern has no
\* word boundary: "then" at the end of a longer word matches too.
RECURSIVE ReplaceThen(_, _)
ReplaceThen(s, i) ==
    IF i > Len(s) THEN <<>>
    ELSE LET j == i + SpacesAt(s, i)
             m == SpacesAt(s, j + 1)
         IN IF j <= Len(s) /\ s[j] = "then" /\ m >= 1
            THEN <<Space, "then", Space>> \o ReplaceThen(s, j + 1 + m)
            ELSE <<s[i]>> \o ReplaceThen(s, i + 1)

\* .replace(/\s*\.\s*and\s+/gi, ' and '), from index i on
RECURSIVE ReplaceDotAnd(_, _)
ReplaceDotAnd(s, i) ==
    IF i > Len(s) THEN <<>>
    ELSE LET d == i + SpacesAt(s, i)
             j == d + 1 + SpacesAt(s, d + 1)
             m == SpacesAt(s, j + 1)
         IN IF d <= Len(s) /\ s[d] = "." /\ j <= Len(s) /\ s[j] = "and" /\ m >= 1
            THEN <<Space, "and", Space>> \o ReplaceDotAnd(s, j + 1 + m)
            ELSE <<s[i]>> \o ReplaceDotAnd(s, i + 1)

\* The phrases preprocessText removes from the start of the text.
FillerPhrases ==
    { <<"i", " ", "need", " ", "to">>, <<"i", " ", "have", " ", "to">>,
      <<"i", " ", "want", " ", "to">>, <<"i", " ", "should">> }

\* .replace(/^(i need to|i have to|i want to|i should)\s+/gi, '')
StripFiller(s) ==
    IF \E f \in FillerPhrases : StartsWithAt(s, 1, f) /\ SpacesAt(s, Len(f) + 1) >= 1
    THEN LET f == CHOOSE f \in FillerPhrases :
                      StartsWithAt(s, 1, f) /\ SpacesAt(s, Len(f) + 1) >= 1
         IN From(s, Len(f) + 1 + SpacesAt(s, Len(f) + 1))
    ELSE s

\* preprocessText without the removal of the filler phrase at the start.
PreprocessTextKeepsFiller(text) ==
    ReplaceDotAnd(
      ReplaceThen(
        ReplaceCommaAnd(CollapseSpaces(ToLowerCase(Trim(text))), 1), 1), 1)

\* TaskParser.preprocessText
PreprocessText(text) ==
    StripFiller(
      ReplaceDotAnd(
        ReplaceThen(
          ReplaceCommaAnd(CollapseSpaces(ToLowerCase(Trim(text))), 1), 1), 1))

\* CONJUNCTIONS
CONJUNCTIONS ==
    << <<"and">>, <<"then">>, <<"also">>, <<"plus">>, <<"after", " ", "that">>,
       <<"next">>, <<"afterwards">>, <<"followed", " ", "by">>,
       <<"as", " ", "well", " ", "as">>, <<"&">>, <<"+">>, <<"along", " ", "with">> >>

ConjunctionSet == {CONJUNCTIONS[k] : k \in 1..Len(CONJUNCTIONS)}

\* ACTION_VERBS
ACTION_VERBS ==
    { <<"buy">>, <<"call">>, <<"email">>, <<"text">>, <<"schedule">>, <<"book">>,
      <<"reserve">>, <<"order">>, <<"pick", " ", "up">>, <<"drop", " ", "off">>,
      <<"visit">>, <<"go", " ", "to">>, <<"check">>, <<"review">>, <<"finish">>,
      <<"complete">>, <<"start">>, <<"begin">>, <<"organize">>, <<"clean">>,
      <<"wash">>, <<"prepare">>, <<"make">>, <<"create">>, <<"write">>, <<"read">>,
      <<"send">>, <<"deliver">>, <<"return">>, <<"cancel">>, <<"confirm">>,
      <<"update">>, <<"remind">>, <<"remember">>, <<"pay">>, <<"transfer">> }

\* SINGLE_TASK_INDICATORS
SINGLE_TASK_INDICATORS ==
    { <<"groceries", ":">>, <<"shopping", " ", "list", ":">>, <<"items", ":">>,
      <<"things", " ", "to">>, <<"remember", " ", "to">>,
      <<"don", "'", "t", " ", "forget">>, <<"note", " ", "to", " ", "self">> }

HasSingleTaskIndicator(s) == \E ind \in SINGLE_TASK_INDICATORS : Includes(s, ind)

\* The words cleanTask removes from the start of a task.
LeadingWords == {"and", "then", "also", "plus"}

\* .replace(/^(and|then|also|plus)\s+/gi, '')
StripLeadingWord(s) ==
    LET body == IF s # <<>> /\ Head(s) = Marker THEN Tail(s) ELSE s
    IN IF body # <<>> /\ Head(body) \in LeadingWords /\ SpacesAt(body, 2) >= 1
       THEN From(body, 2 + SpacesAt(body, 2))
       ELSE s

\* .replace(/^./, char => char.toUpperCase())
Capitalize(s) ==
    IF s # <<>> /\ IsLetterAtom(Head(s)) THEN <<Marker>> \o s ELSE s

\* TaskParser.cleanTask
CleanTask(task) == Capitalize(CollapseSpaces(StripLeadingWord(Trim(task))))

\* String.prototype.split with a separator that is one of the atoms seps;
\* cur is the part being collected.
RECURSIVE SplitEach(_, _, _)
SplitEach(s, seps, cur) ==
    IF s = <<>> THEN <<cur>>
    ELSE IF Head(s) \in seps
    THEN <<cur>> \o SplitEach(Tail(s), seps, <<>>)
    ELSE SplitEach(Tail(s), seps, Append(cur, Head(s)))

\* The number of consecutive atoms of seps at the start of s.
RECURSIVE RunLength(_, _)
RunLength(s, seps) ==
    IF s # <<>> /\ Head(s) \in seps THEN 1 + RunLength(Tail(s), seps) ELSE 0

\* .split(/[,.;]+/): the separator is a run of atoms of seps.
RECURSIVE SplitRuns(_, _, _)
SplitRuns(s, seps, cur) ==
    IF s = <<>> THEN <<cur>>
    ELSE IF Head(s) \in seps
    THEN <<cur>> \o SplitRuns(From(s, 1 + RunLength(s, seps)), seps, <<>>)
    ELSE SplitRuns(Tail(s), seps, Append(cur, Head(s)))

\* Array.prototype.join(' ')
RECURSIVE Join(_)
Join(words) ==
    IF words = <<>> THEN <<>>
    ELSE IF Len(words) = 1 THEN Head(words)
    ELSE Head(words) \o <<Space>> \o Join(Tail(words))

\* parts.map(task => this.cleanTask(task))
\*      .filter(task => task.length >= this.options.minTaskLength)
CleanAndFilter(parts, options) ==
    SelectSeq([k \in 1..Len(parts) |-> CleanTask(parts[k])],
              LAMBDA t : CharLen(t) >= options.minTaskLength)

\* Array.prototype.slice(0, n), for n >= 0
Slice(tasks, n) == SubSeq(tasks, 1, IF n < Len(tasks) THEN n ELSE Len(tasks))

\* The outcome of calling a strategy: it returns a ParseResult or it throws.
Returned(r) == [threw |-> FALSE, result |-> r]
Thrown == [threw |-> TRUE, result |-> NoParseResult]

\* TaskParser.createFailureResult
CreateFailureResult(text) == ParseResultOf(<<>>, text, 0, FALLBACK, FALSE)

\* createFallbackResult without the comparison against minTaskLength.
CreateFallbackResultIgnoresLength(text, options) ==
    LET cleanedText == CleanTask(text)
        keep == options.preserveOriginalOnFailure
    IN ParseResultOf(IF keep THEN <<cleanedText>> ELSE <<>>, text, 30, FALLBACK, keep)

\* TaskParser.createFallbackResult
CreateFallbackResult(text, options) ==
    LET cleanedText == CleanTask(text)
        keep == /\ options.preserveOriginalOnFailure
                /\ CharLen(cleanedText) >= options.minTaskLength
    IN ParseResultOf(IF keep THEN <<cleanedText>> ELSE <<>>, text, 30, FALLBACK, keep)

\* Characters that are quantifiers in a regular expression.  Written alone
\* as an alternative of a pattern they have nothing to repeat, and the
\* RegExp constructor throws a SyntaxError.
RegExpQuantifiers == {"+", "*", "?"}

\* new RegExp(`\\b(${CONJUNCTIONS.join('|')})\\b`, 'gi') returns a pattern:
\* no alternative starts with a quantifier.  The conjunctions are joined as
\* they are, without escaping.
ConjunctionPatternCompiles ==
    \A k \in 1..Len(CONJUNCTIONS) : Head(CONJUNCTIONS[k]) \notin RegExpQuantifiers

\* \b at the place before index i of s
BoundaryBefore(s, i) ==
    (i > 1 /\ i - 1 <= Len(s) /\ IsWordAtom(s[i - 1])) # (i <= Len(s) /\ IsWordAtom(s[i]))

\* The pattern \b(c)\b, for the conjunction c, matches s at index i.
ConjunctionAt(s, i, c) ==
    /\ StartsWithAt(s, i, c)
    /\ BoundaryBefore(s, i)
    /\ BoundaryBefore(s, i + Len(c))

\* The index in CONJUNCTIONS of the alternative that matches s at index i
\* (the first one that does), or 0.
MatchConjunction(s, i) ==
    IF \E k \in 1..Len(CONJUNCTIONS) : ConjunctionAt(s, i, CONJUNCTIONS[k])
    THEN CHOOSE k \in 1..Len(CONJUNCTIONS) :
             /\ ConjunctionAt(s, i, CONJUNCTIONS[k])
             /\ \A j \in 1..(k - 1) : ~ConjunctionAt(s, i, CONJUNCTIONS[j])
    ELSE 0

\* text.split(pattern), from index i on: the pattern has a capture group, so
\* the conjunctions matched are among the parts.
RECURSIVE SplitConjunctions(_, _, _)
SplitConjunctions(s, i, cur) ==
    IF i > Len(s) THEN <<cur>>
    ELSE LET k == MatchConjunction(s, i)
         IN IF k # 0
            THEN <<cur, CONJUNCTIONS[k]>>
                     \o SplitConjunctions(s, i + Len(CONJUNCTIONS[k]), <<>>)
            ELSE SplitConjunctions(s, i + 1, Append(cur, s[i]))

\* TaskParser.tryConjunctionSplit
TryConjunctionSplit(text, options) ==
    IF ~ConjunctionPatternCompiles THEN Thrown
    ELSE LET parts == SelectSeq(SplitConjunctions(text, 1, <<>>),
                                LAMBDA part : /\ part # <<>>
                                              /\ Trim(ToLowerCase(part)) \notin ConjunctionSet)
             tasks == Slice(CleanAndFilter(parts, options), options.maxTasks)
         IN IF Len(parts) > 1 /\ Len(tasks) > 1
            THEN Returned(ParseResultOf(tasks, text, 90, CONJUNCTION_SPLIT, TRUE))
            ELSE Returned(CreateFailureResult(text))

\* TaskParser.tryPunctuationSplit
TryPunctuationSplit(text, options) ==
    IF HasSingleTaskIndicator(text) THEN Returned(CreateFailureResult(text))
    ELSE LET parts == SelectSeq(SplitRuns(text, {",", ".", ";"}, <<>>),
                                LAMBDA part : Trim(part) # <<>>)
             tasks == Slice(CleanAndFilter(parts, options), options.maxTasks)
         IN IF Len(parts) > 1 /\ Len(tasks) > 1
            THEN Returned(ParseResultOf(tasks, text, 70, PUNCTUATION_SPLIT, TRUE))
            ELSE Returned(CreateFailureResult(text))

\* The loop of tryActionVerbSplit from words[i] on, and the code after it
\* that adds the final task: the tasks collected.
RECURSIVE ActionVerbTasks(_, _, _, _, _)
ActionVerbTasks(words, i, currentTask, tasks, options) ==
    LET taskText == CleanTask(Join(currentTask))
        pushed == IF CharLen(taskText) >= options.minTaskLength
                  THEN Append(tasks, taskText)
                  ELSE tasks
    IN IF i > Len(words)
       THEN IF currentTask # <<>> THEN pushed ELSE tasks
       ELSE LET word == words[i]
                twoWordVerb ==
                    Trim(word \o <<Space>> \o (IF i < Len(words) THEN words[i + 1] ELSE <<>>))
                isActionStart == word \in ACTION_VERBS \/ twoWordVerb \in ACTION_VERBS
            IN IF isActionStart /\ currentTask # <<>>
               THEN ActionVerbTasks(words, i + 1, <<word>>, pushed, options)
               ELSE ActionVerbTasks(words, i + 1, Append(currentTask, word), tasks, options)

\* TaskParser.tryActionVerbSplit
TryActionVerbSplit(text, options) ==
    LET words == SplitEach(text, {Space}, <<>>)
        tasks == ActionVerbTasks(words, 1, <<>>, <<>>, options)
    IN IF Len(tasks) > 1
       THEN Returned(ParseResultOf(Slice(tasks, options.maxTasks), text, 80,
                                   ACTION_VERB_SPLIT, TRUE))
       ELSE Returned(CreateFailureResult(text))

\* The loop of tryHybridSplit over the tasks of the conjunction split, from
\* tasks[i] on: the refined tasks.
RECURSIVE RefinedTasks(_, _, _)
RefinedTasks(tasks, i, options) ==
    IF i > Len(tasks) THEN <<>>
    ELSE LET task == tasks[i]
         IN (IF Includes(task, <<",">>) /\ ~HasSingleTaskIndicator(task)
             THEN CleanAndFilter(SplitEach(task, {","}, <<>>), options)
             ELSE <<task>>)
            \o RefinedTasks(tasks, i + 1, options)

\* tryHybridSplit refining the tasks of the action-verb split instead of
\* those of the conjunction split.
TryHybridSplitOverActionVerbs(text, options) ==
    LET firstResult == TryActionVerbSplit(text, options)
        refinedTasks == RefinedTasks(firstResult.result.tasks, 1, options)
    IN IF /\ firstResult.result.success
          /\ Len(firstResult.result.tasks) > 1
          /\ Len(refinedTasks) > Len(firstResult.result.tasks)
       THEN Returned(ParseResultOf(Slice(refinedTasks, options.maxTasks), text, 85,
                                   HYBRID, TRUE))
       ELSE Returned(CreateFailureResult(text))

\* TaskParser.tryHybridSplit
TryHybridSplit(text, options) ==
    LET conjunctionResult == TryConjunctionSplit(text, options)
    IN IF conjunctionResult.threw THEN Thrown
       ELSE LET refinedTasks == RefinedTasks(conjunctionResult.result.tasks, 1, options)
            IN IF /\ conjunctionResult.result.success
                  /\ Len(conjunctionResult.result.tasks) > 1
                  /\ Len(refinedTasks) > Len(conjunctionResult.result.tasks)
               THEN Returned(ParseResultOf(Slice(refinedTasks, options.maxTasks), text, 85,
                                           HYBRID, TRUE))
               ELSE Returned(CreateFailureResult(text))

\* The strategies of parseTasksFromSpeech, in the order it tries them.
NumStrategies == 4

Strategy(k, text, options) ==
    CASE k = 1 -> TryConjunctionSplit(text, options)
      [] k = 2 -> TryPunctuationSplit(text, options)
      [] k = 3 -> TryActionVerbSplit(text, options)
      [] k = 4 -> TryHybridSplit(text, options)

\* ------------------------------------------------- parseTasksFromSpeech()

\* The atoms of the texts that are tried exhaustively: an action verb, a word
\* shorter than the default minTaskLength, two conjunctions, the space and
\* the comma.
ParseAtoms == {"buy", "hi", "and", "then", " ", ","}

BoundedTexts == UNION {[1..n -> ParseAtoms] : n \in 0..MaxAtoms}

\* Sentences of the documentation and of the tests.
BuyMilkAndCallMom ==
    <<"^", "buy", " ", "milk", " ", "and", " ", "call", " ", "mom">>
BuyGroceries ==
    <<"^", "buy", " ", "groceries", ":", " ", "milk", ",", " ", "bread", ",", " ",
      "and", " ", "eggs">>
ShoppingList ==
    <<"^", "shopping", " ", "list", ":", " ", "apples", ",", " ", "oranges", ",", " ",
      "bananas">>
RememberToPickUp ==
    <<"^", "remember", " ", "to", " ", "pick", " ", "up", " ", "the", " ", "kids", " ",
      "at", " ", "3", " ", "^", "pm", " ", "from", " ", "school">>
ScheduleThenEmail ==
    <<"^", "schedule", " ", "meeting", " ", "then", " ", "email", " ", "client">>
ReportFollowedBy ==
    <<"^", "complete", " ", "report", " ", "followed", " ", "by", " ", "schedule", " ",
      "meeting">>
MilkAmpersandMom ==
    <<"buy", " ", "milk", " ", "&", " ", "call", " ", "mom">>
HiAndBye == <<"hi", " ", "and", " ", "bye">>
FourTasks ==
    <<"task", " ", "one", " ", "and", " ", "task", " ", "two", " ", "and", " ",
      "task", " ", "three", " ", "and", " ", "task", " ", "four">>
UnparseableText ==
    <<"some", " ", "unparseable", " ", "text", " ", "without", " ", "clear", " ", "tasks">>

Examples ==
    { BuyMilkAndCallMom, BuyGroceries, ShoppingList, RememberToPickUp, ScheduleThenEmail,
      ReportFollowedBy, MilkAmpersandMom, HiAndBye, FourTasks, UnparseableText }

InputTexts == BoundedTexts \cup Examples

\* The options a TaskParser is constructed with.
OptionValues ==
    [minTaskLength : {0, 3, 10}, maxTasks : {0, 1, 2, 10}, preserveOriginalOnFailure : BOOLEAN]

InitParse ==
    /\ cfg = [OS |-> "web", hasRecognition |-> TRUE, configured |-> FALSE,
              partialResults |-> TRUE]
    /\ SessionInit
    /\ GateUnused
    /\ ConfirmUnused
    /\ TasksUnused
    /\ DeviceUnused
    /\ parseOptions \in OptionValues
    /\ parseText \in InputTexts
    /\ parsePc = "idle"
    /\ cleanText = <<>>
    /\ strategyIdx = 0
    /\ strategyThrew = {}
    /\ bestResult = NoParseResult
    /\ parseResult = NoParseResult
    /\ nParses = 1
    /\ parsed = <<>>

\* parseTasksFromSpeech with bestResult kept from one call to the next, as a
\* field of the parser would be.
ParseTasksFromSpeechKeepsBest ==
    /\ parsePc = "idle"
    /\ IF Trim(parseText) = <<>>
       THEN /\ parsePc' = "returned"
            /\ parseResult' = CreateFailureResult(parseText)
            /\ parsed' = Append(parsed, [text |-> parseText, result |-> parseResult'])
            /\ UNCHANGED <<cleanText, strategyIdx, strategyThrew, bestResult>>
       ELSE /\ parsePc' = "strategies"
            /\ cleanText' = PreprocessText(parseText)
            /\ strategyIdx' = 1
            /\ strategyThrew' = {}
            /\ UNCHANGED <<parseResult, parsed, bestResult>>
    /\ UNCHANGED <<speechVars, gateVars, confirmVars, taskVars, deviceVars, parseOptions, parseText, nParses>>

\* parseTasksFromSpeech with the check for an empty text made on the text as
\* given, not trimmed.
ParseTasksFromSpeechUntrimmed ==
    /\ parsePc = "idle"
    /\ IF parseText = <<>>
       THEN /\ parsePc' = "returned"
            /\ parseResult' = CreateFailureResult(parseText)
            /\ parsed' = Append(parsed, [text |-> parseText, result |-> parseResult'])
            /\ UNCHANGED <<cleanText, strategyIdx, strategyThrew, bestResult>>
       ELSE /\ parsePc' = "strategies"
            /\ cleanText' = PreprocessText(parseText)
            /\ strategyIdx' = 1
            /\ strategyThrew' = {}
            /\ bestResult' = NoParseResult
            /\ UNCHANGED <<parseResult, parsed>>
    /\ UNCHANGED <<speechVars, gateVars, confirmVars, taskVars, deviceVars, parseOptions, parseText, nParses>>

\* parseTasksFromSpeech(text) up to its loop: the check for an empty text and
\* preprocessText.
ParseTasksFromSpeech ==
    /\ parsePc = "idle"
    /\ IF Trim(parseText) = <<>>
       THEN /\ parsePc' = "returned"
            /\ parseResult' = CreateFailureResult(parseText)
            /\ parsed' = Append(parsed, [text |-> parseText, result |-> parseResult'])
            /\ UNCHANGED <<cleanText, strategyIdx, strategyThrew, bestResult>>
       ELSE /\ parsePc' = "strategies"
            /\ cleanText' = PreprocessText(parseText)
            /\ strategyIdx' = 1
            /\ strategyThrew' = {}
            /\ bestResult' = NoParseResult
            /\ UNCHANGED <<parseResult, parsed>>
    /\ UNCHANGED <<speechVars, gateVars, confirmVars, taskVars, deviceVars, parseOptions, parseText, nParses>>

\* The loop over the strategies without its try block: the exception of a
\* strategy leaves parseTasksFromSpeech.
TryStrategyUncaught ==
    /\ parsePc = "strategies"
    /\ strategyIdx <= NumStrategies
    /\ LET outcome == Strategy(strategyIdx, cleanText, parseOptions)
           result == outcome.result
       IN IF outcome.threw
          THEN /\ strategyThrew' = strategyThrew \cup {strategyIdx}
               /\ parsePc' = "threw"
               /\ UNCHANGED bestResult
          ELSE /\ bestResult' =
                     IF /\ result.success
                        /\ result.confidence > 50
                        /\ (bestResult = NoParseResult
                            \/ result.confidence > bestResult.confidence)
                     THEN result
                     ELSE bestResult
               /\ UNCHANGED <<strategyThrew, parsePc>>
    /\ strategyIdx' = strategyIdx + 1
    /\ UNCHANGED <<speechVars, gateVars, confirmVars, taskVars, deviceVars, parseOptions, parseText, cleanText,
                   parseResult, nParses, parsed>>

\* The loop over the strategies keeping the first result that succeeded,
\* without comparing confidences.
TryStrategyFirstWins ==
    /\ parsePc = "strategies"
    /\ strategyIdx <= NumStrategies
    /\ LET outcome == Strategy(strategyIdx, cleanText, parseOptions)
           result == outcome.result
       IN IF outcome.threw
          THEN /\ strategyThrew' = strategyThrew \cup {strategyIdx}
               /\ UNCHANGED bestResult
          ELSE /\ bestResult' =
                     IF /\ result.success
                        /\ result.confidence > 50
                        /\ bestResult = NoParseResult
                     THEN result
                     ELSE bestResult
               /\ UNCHANGED strategyThrew
    /\ strategyIdx' = strategyIdx + 1
    /\ UNCHANGED <<speechVars, gateVars, confirmVars, taskVars, deviceVars, parseOptions, parseText, parsePc, cleanText,
                   parseResult, nParses, parsed>>

\* One round of the loop over the strategies: the strategy is called inside
\* a try block, and its result replaces bestResult when it succeeded with a
\* confidence above 0.5 and above that of bestResult.
TryStrategy ==
    /\ parsePc = "strategies"
    /\ strategyIdx <= NumStrategies
    /\ LET outcome == Strategy(strategyIdx, cleanText, parseOptions)
           result == outcome.result
       IN IF outcome.threw
          THEN /\ strategyThrew' = strategyThrew \cup {strategyIdx}
               /\ UNCHANGED bestResult
          ELSE /\ bestResult' =
                     IF /\ result.success
                        /\ result.confidence > 50
                        /\ (bestResult = NoParseResult
                            \/ result.confidence > bestResult.confidence)
                     THEN result
                     ELSE bestResult
               /\ UNCHANGED strategyThrew
    /\ strategyIdx' = strategyIdx + 1
    /\ UNCHANGED <<speechVars, gateVars, confirmVars, taskVars, deviceVars, parseOptions, parseText, parsePc, cleanText,
                   parseResult, nParses, parsed>>

\* return bestResult || this.createFallbackResult(cleanText)
ParseReturns ==
    /\ parsePc = "strategies"
    /\ strategyIdx > NumStrategies
    /\ parsePc' = "returned"
    /\ parseResult' = IF bestResult # NoParseResult
                      THEN bestResult
                      ELSE CreateFallbackResult(cleanText, parseOptions)
    /\ parsed' = Append(parsed, [text |-> parseText, result |-> parseResult'])
    /\ UNCHANGED <<speechVars, gateVars, confirmVars, taskVars, deviceVars, parseOptions, parseText, cleanText, strategyIdx,
                   strategyThrew, bestResult, nParses>>

NextParse ==
    \/ ParseTasksFromSpeech
    \/ TryStrategy
    \/ ParseReturns

SpecParse == InitParse /\ [][NextParse]_vars

TypeOKParse ==
    /\ parsePc \in {"idle", "strategies", "returned"}
    /\ strategyIdx \in 0..(NumStrategies + 1)
    /\ strategyThrew \subseteq 1..NumStrategies

\* --------------------------------- several calls on one TaskParser

\* A text on which only the punctuation split succeeds.
HiHiCommaHiHi == <<"hi", " ", "hi", ",", " ", "hi", " ", "hi">>

\* The texts given to a parser that is called several times: one that falls
\* back, one split at its action verbs, one split at its punctuation, and a
\* blank one.
ReparseTexts == {HiAndBye, BuyMilkAndCallMom, HiHiCommaHiHi, <<Space>>}

InitReparse ==
    /\ cfg = [OS |-> "web", hasRecognition |-> TRUE, configured |-> FALSE,
              partialResults |-> TRUE]
    /\ SessionInit
    /\ GateUnused
    /\ ConfirmUnused
    /\ TasksUnused
    /\ DeviceUnused
    /\ parseOptions \in OptionValues
    /\ parseText \in ReparseTexts
    /\ parsePc = "idle"
    /\ cleanText = <<>>
    /\ strategyIdx = 0
    /\ strategyThrew = {}
    /\ bestResult = NoParseResult
    /\ parseResult = NoParseResult
    /\ nParses = 1
    /\ parsed = <<>>

\* The next call of parseTasksFromSpeech on the same parser, with the text t.
\* The options are those of the constructor; the locals of the call that has
\* returned are dead, and the new call sets its own.
ParseAgain(t) ==
    /\ parsePc = "returned"
    /\ nParses < MaxParses
    /\ nParses' = nParses + 1
    /\ parseText' = t
    /\ parsePc' = "idle"
    /\ UNCHANGED <<speechVars, gateVars, confirmVars, taskVars, deviceVars, parseOptions, cleanText, strategyIdx,
                   strategyThrew, bestResult, parseResult, parsed>>

NextReparse ==
    \/ ParseTasksFromSpeech
    \/ TryStrategy
    \/ ParseReturns
    \/ \E t \in ReparseTexts : ParseAgain(t)

SpecReparse == InitReparse /\ [][NextReparse]_vars

\* The segments of a text that its conjunctions, matched as whole words or
\* phrases, separate.
ConjunctionSegments(text) ==
    LET parts == SplitConjunctions(CollapseSpaces(ToLowerCase(Trim(text))), 1, <<>>)
    IN [k \in 1..((Len(parts) + 1) \div 2) |-> Trim(parts[2 * k - 1])]

\* A segment that is a task by itself: words only, long enough for the options.
PlainSegment(seg, options) ==
    /\ seg # <<>>
    /\ \A k \in 1..Len(seg) : IsWordAtom(seg[k]) \/ seg[k] = Space
    /\ Head(seg) \notin LeadingWords
    /\ CharLen(seg) >= options.minTaskLength

\* The text consists of two or more plain segments joined by conjunctions,
\* and of no more of them than the options allow.
ConjunctionJoined(text, options) ==
    LET segs == ConjunctionSegments(text)
    IN /\ Len(segs) >= 2
       /\ Len(segs) <= options.maxTasks
       /\ \A k \in 1..Len(segs) : PlainSegment(segs[k], options)

\* C18: a text of k >= 2 segments joined by conjunctions is parsed, with the
\* default options, into exactly its k segments, in order, each with its
\* first letter in upper case, by the strategy CONJUNCTION_SPLIT and with a
\* confidence of at least 0.8.
C18_ConjunctionSplitSegments ==
    (/\ parsePc = "returned"
     /\ parseOptions = DefaultOptions
     /\ ConjunctionJoined(parseText, parseOptions))
    => /\ parseResult.success
       /\ parseResult.strategy = CONJUNCTION_SPLIT
       /\ parseResult.confidence >= 80
       /\ parseResult.tasks =
              [k \in 1..Len(ConjunctionSegments(parseText)) |->
                  Capitalize(ConjunctionSegments(parseText)[k])]

\* C19: a text that contains a single-task indicator is parsed, with the
\* default options, into exactly one task, which still contains an indicator.
C19_IndicatorKeepsOneTask ==
    (/\ parsePc = "returned"
     /\ parseOptions = DefaultOptions
     /\ HasSingleTaskIndicator(ToLowerCase(parseText)))
    => /\ Len(parseResult.tasks) = 1
       /\ HasSingleTaskIndicator(ToLowerCase(parseResult.tasks[1]))

\* C20: every ParseResult returned has at most maxTasks tasks, each of at
\* least minTaskLength characters.
C20_TaskLimits ==
    parsePc = "returned"
    => /\ Len(parseResult.tasks) <= parseOptions.maxTasks
       /\ \A k \in 1..Len(parseResult.tasks) :
             CharLen(parseResult.tasks[k]) >= parseOptions.minTaskLength

\* The text has two or more segments separated by conjunctions, none of
\* them empty and every one of them shorter than minTaskLength.
AllSegmentsTooShort(text, options) ==
    LET segs == ConjunctionSegments(text)
    IN /\ Len(segs) >= 2
       /\ \A k \in 1..Len(segs) :
             segs[k] # <<>> /\ CharLen(segs[k]) < options.minTaskLength

\* C21: when every conjunction-separated segment of the text is shorter than
\* minTaskLength, the ParseResult returned has no tasks.
C21_ShortSegmentsNoTasks ==
    (parsePc = "returned" /\ AllSegmentsTooShort(parseText, parseOptions))
    => parseResult.tasks = <<>>

\* The outcome of strategy k on the preprocessed text.
Outcome(k, text, options) == Strategy(k, PreprocessText(text), options)

\* Strategy k returned a successful result with a confidence above 0.5.
Succeeded(k, text, options) ==
    /\ ~Outcome(k, text, options).threw
    /\ Outcome(k, text, options).result.success
    /\ Outcome(k, text, options).result.confidence > 50

NoStrategySucceeds(text, options) ==
    \A k \in 1..NumStrategies : ~Succeeded(k, text, options)

\* C22: for a text that is not blank and on which no strategy succeeds, the
\* ParseResult returned is the cleaned whole text as its only task, with
\* confidence 0.3, strategy FALLBACK and success, when
\* preserveOriginalOnFailure is set and the cleaned whole text has at least
\* minTaskLength characters; otherwise it has no tasks and no success.
C22_FallbackResult ==
    (/\ parsePc = "returned"
     /\ Trim(parseText) # <<>>
     /\ NoStrategySucceeds(parseText, parseOptions))
    => LET whole == CleanTask(PreprocessText(parseText))
       IN IF /\ parseOptions.preserveOriginalOnFailure
             /\ CharLen(whole) >= parseOptions.minTaskLength
          THEN /\ parseResult.tasks = <<whole>>
               /\ parseResult.confidence = 30
               /\ parseResult.strategy = FALLBACK
               /\ parseResult.success
          ELSE /\ parseResult.tasks = <<>>
               /\ ~parseResult.success

\* The whole of a text on which no strategy succeeds has been returned as
\* its only task.
C22_Witness ==
    /\ parsePc = "returned"
    /\ parseText = HiAndBye
    /\ parseOptions = DefaultOptions
    /\ NoStrategySucceeds(parseText, parseOptions)
    /\ parseResult.strategy = FALLBACK
    /\ parseResult.success
    /\ parseResult.tasks = << <<Marker>> \o HiAndBye >>

\* C23: every ParseResult returned with success has at least one task, and
\* every ParseResult returned with strategy FALLBACK has a confidence of at
\* most 0.3.
C23_ResultInvariant ==
    parsePc = "returned"
    => /\ (parseResult.success => parseResult.tasks # <<>>)
       /\ (parseResult.strategy = FALLBACK => parseResult.confidence <= 30)

\* The text is empty or consists of white space only.
Blank(text) == \A k \in 1..Len(text) : text[k] = Space

\* C24: a text that is empty or consists of white space only is parsed into
\* a ParseResult without success and without tasks, whatever the options.
C24_BlankInputFails ==
    (parsePc = "returned" /\ Blank(parseText))
    => /\ ~parseResult.success
       /\ parseResult.tasks = <<>>

\* A text of white space has been parsed by a parser that preserves the
\* original text and accepts tasks of any length.
C24_Witness ==
    /\ parsePc = "returned"
    /\ parseText = <<Space, Space>>
    /\ parseOptions.preserveOriginalOnFailure
    /\ parseOptions.minTaskLength = 0
    /\ ~parseResult.success

\* The strategy whose result the selection of the claim chooses: one that
\* succeeded, with no strategy of a higher confidence and no earlier one of
\* the same confidence among those that succeeded.
Selected(k, text, options) ==
    /\ Succeeded(k, text, options)
    /\ \A j \in 1..NumStrategies :
          Succeeded(j, text, options)
          => \/ Outcome(j, text, options).result.confidence
                    < Outcome(k, text, options).result.confidence
             \/ /\ Outcome(j, text, options).result.confidence
                       = Outcome(k, text, options).result.confidence
                /\ j >= k

\* C25: when some strategy succeeded with a confidence above 0.5, the
\* ParseResult returned is that of the strategy of the highest confidence
\* among those that did, and of the first one tried among equals.
C25_HighestConfidenceWins ==
    (parsePc = "returned" /\ ~Blank(parseText))
    => \A k \in 1..NumStrategies :
          Selected(k, parseText, parseOptions)
          => parseResult = Outcome(k, parseText, parseOptions).result

\* Two strategies succeeded on the text, with different confidences, and the
\* result of the later and more confident one has been returned.
C25_Witness ==
    /\ parsePc = "returned"
    /\ Succeeded(2, parseText, parseOptions)
    /\ Succeeded(3, parseText, parseOptions)
    /\ parseResult.strategy = ACTION_VERB_SPLIT
    /\ parseResult.confidence = 80

\* The values of ParseStrategy.
ParseStrategies ==
    {SINGLE_TASK, CONJUNCTION_SPLIT, PUNCTUATION_SPLIT, ACTION_VERB_SPLIT, HYBRID, FALLBACK}

\* C26: parseTasksFromSpeech always returns a ParseResult: no exception
\* leaves it, even when a strategy throws; while in its loop it has a
\* strategy to try or the return statement to reach.
C26_ParseTotal ==
    /\ parsePc \in {"idle", "strategies", "returned"}
    /\ (parsePc = "strategies" => strategyIdx \in 1..(NumStrategies + 1))
    /\ (parsePc = "returned"
        => /\ parseResult.strategy \in ParseStrategies
           /\ parseResult.confidence \in 0..100
           /\ parseResult.originalText \in {parseText, cleanText})

\* A result has been returned after two strategies threw.
C26_Witness ==
    /\ parsePc = "returned"
    /\ strategyThrew = {1, 4}
    /\ parseResult.success
    /\ parseResult.strategy = PUNCTUATION_SPLIT

\* C27: the calls of parseTasksFromSpeech on one parser that were given the
\* same text returned the same ParseResult, whatever was parsed in between.
C27_SameTextSameResult ==
    \A i, j \in 1..Len(parsed) :
        parsed[i].text = parsed[j].text => parsed[i].result = parsed[j].result

\* A text that falls back has been parsed, then a text that is split, then
\* the first text again.
C27_Witness ==
    /\ Len(parsed) = 3
    /\ parsed[1].text = HiAndBye
    /\ parsed[2].text = BuyMilkAndCallMom
    /\ parsed[3].text = HiAndBye
    /\ parsed[1].result.strategy = FALLBACK
    /\ parsed[2].result.strategy = ACTION_VERB_SPLIT
    /\ parsed[3].result = parsed[1].result

(***************************************************************************)
(* Part 4: HomeScreen.handleConfirmTranscript (app/index.tsx).             *)
(*                                                                         *)
(* The handler of the "Create Tasks" button: it parses the transcript with *)
(* a TaskParser of default options (the parser's steps are those of Part   *)
(* 3), calls addTask once for every task inside parsedTasks.map(...),      *)
(* which runs to its end without interruption, and then awaits the         *)
(* promises addTask returned.                                              *)
(***************************************************************************)

\* Titles of the alerts of handleConfirmTranscript
NoSpeechDetectedAlert == "No Speech Detected"
NoTasksFoundAlert == "No Tasks Found"
TasksCreatedAlert == "Tasks Created!"
ErrorCreatingTasksAlert == "Error Creating Tasks"

InitConfirm ==
    /\ cfg = [OS |-> "web", hasRecognition |-> TRUE, configured |-> FALSE,
              partialResults |-> TRUE]
    /\ SessionInit
    /\ GateUnused
    /\ TasksUnused
    /\ DeviceUnused
    /\ screenTranscript \in InputTexts
    /\ confirmedText = <<>>
    /\ confirmPc = "idle"
    /\ sinkCalls = <<>>
    /\ alertTitle = "none"
    /\ parseOptions = DefaultOptions
    /\ parseText = <<>>
    /\ parsePc = "none"
    /\ cleanText = <<>>
    /\ strategyIdx = 0
    /\ strategyThrew = {}
    /\ bestResult = NoParseResult
    /\ parseResult = NoParseResult
    /\ nParses = 0
    /\ parsed = <<>>

\* handleConfirmTranscript up to the call parseTasksFromSpeech(transcript):
\* a blank transcript is answered with an alert; otherwise the function
\* parseTasksFromSpeech of the parser module makes a TaskParser with the
\* default options and calls its parseTasksFromSpeech.
HandleConfirmTranscript ==
    /\ confirmPc = "idle"
    /\ confirmedText' = screenTranscript
    /\ IF Trim(screenTranscript) = <<>>
       THEN /\ alertTitle' = NoSpeechDetectedAlert
            /\ confirmPc' = "done"
            /\ UNCHANGED <<parseOptions, parseText, parsePc, nParses>>
       ELSE /\ confirmPc' = "parsing"
            /\ parseOptions' = DefaultOptions
            /\ parseText' = screenTranscript
            /\ parsePc' = "idle"
            /\ nParses' = 1
            /\ UNCHANGED alertTitle
    /\ UNCHANGED <<speechVars, gateVars, taskVars, deviceVars, screenTranscript, sinkCalls,
                   cleanText, strategyIdx,
                   strategyThrew, bestResult, parseResult, parsed>>

\* The handler calling addTask for the first task only.
AddParsedTasksFirstOnly ==
    /\ confirmPc = "parsing"
    /\ parsePc = "returned"
    /\ LET parsedTasks == parseResult.tasks
       IN IF parsedTasks = <<>>
          THEN /\ alertTitle' = NoTasksFoundAlert
               /\ confirmPc' = "done"
               /\ UNCHANGED sinkCalls
          ELSE /\ sinkCalls' = Append(sinkCalls, Trim(parsedTasks[1]))
               /\ confirmPc' = "awaiting"
               /\ UNCHANGED alertTitle
    /\ UNCHANGED <<speechVars, gateVars, parseVars, taskVars, deviceVars, screenTranscript, confirmedText>>

\* handleConfirmTranscript from the return of the parser to await
\* Promise.all(taskPromises): no tasks are answered with an alert; otherwise
\* parsedTasks.map(taskTitle => addTask(taskTitle.trim())) calls addTask for
\* each task in turn.
AddParsedTasks ==
    /\ confirmPc = "parsing"
    /\ parsePc = "returned"
    /\ LET parsedTasks == parseResult.tasks
       IN IF parsedTasks = <<>>
          THEN /\ alertTitle' = NoTasksFoundAlert
               /\ confirmPc' = "done"
               /\ UNCHANGED sinkCalls
          ELSE /\ sinkCalls' = sinkCalls \o [k \in 1..Len(parsedTasks) |-> Trim(parsedTasks[k])]
               /\ confirmPc' = "awaiting"
               /\ UNCHANGED alertTitle
    /\ UNCHANGED <<speechVars, gateVars, parseVars, taskVars, deviceVars, screenTranscript, confirmedText>>

\* Promise.all(taskPromises) settles: fulfilled when every addTask was (the
\* success alert, and the transcript is cleared), rejected when one was not
\* (the catch block's alert).
TasksSettle(ok) ==
    /\ confirmPc = "awaiting"
    /\ confirmPc' = "done"
    /\ IF ok
       THEN /\ alertTitle' = TasksCreatedAlert
            /\ screenTranscript' = <<>>
       ELSE /\ alertTitle' = ErrorCreatingTasksAlert
            /\ UNCHANGED screenTranscript
    /\ UNCHANGED <<speechVars, gateVars, parseVars, taskVars, deviceVars, confirmedText, sinkCalls>>

NextConfirm ==
    \/ HandleConfirmTranscript
    \/ ParseTasksFromSpeech
    \/ TryStrategy
    \/ ParseReturns
    \/ AddParsedTasks
    \/ \E ok \in BOOLEAN : TasksSettle(ok)

SpecConfirm == InitConfirm /\ [][NextConfirm]_vars

\* C28: once the handler has got past the parser, addTask has been called
\* once for each task of the parsed list, in the order of the list; for a
\* blank transcript and for an empty list addTask has not been called and the
\* alert shown says that no speech was detected or that no tasks were found.
\* Before that, addTask has not been called.
C28_SinkOncePerTask ==
    /\ confirmPc \in {"idle", "parsing"} => sinkCalls = <<>>
    /\ confirmPc \in {"awaiting", "done"}
       => IF Blank(confirmedText)
          THEN sinkCalls = <<>> /\ alertTitle = NoSpeechDetectedAlert
          ELSE IF parseResult.tasks = <<>>
          THEN sinkCalls = <<>> /\ alertTitle = NoTasksFoundAlert
          ELSE sinkCalls = parseResult.tasks

\* A transcript of two tasks has been confirmed and both were created.
C28_Witness ==
    /\ confirmPc = "done"
    /\ confirmedText = BuyMilkAndCallMom
    /\ Len(parseResult.tasks) = 2
    /\ sinkCalls = parseResult.tasks
    /\ alertTitle = TasksCreatedAlert

\* stopListening() is called in this step while the session is in no cycle
\* (IDLE or ERROR): the call the specification lets invoke onEnd again.
StopOutsideCycle == nStops' # nStops /\ state \notin {LISTENING, PROCESSING}

\* C29: within a listening cycle, whatever the order of stopListening()
\* calls, the timeout and the backend's completion, onEnd is invoked at most
\* once and no onResult is delivered after the cycle's onEnd.
C29_OneEndThenSilence ==
    [][onStartCalls > 0
       => /\ (onEndCalls' > onEndCalls /\ ~StopOutsideCycle) => cycEnds = 0
          /\ onResultParity' # onResultParity => cycEnds = 0]_vars

\* C30: a backend whose timeout timer has fired delivers no further partial
\* onResult (isFinal = false) to the session.
C30_NoPartialAfterTimeout ==
    [][(onResultParity' # onResultParity /\ ~lastResult'.isFinal)
       => tmo[lastResult'.src] # "fired"]_vars

\* ------------------------------------------------------------------ C31

\* Start call i fell back from the cloud backend to the simulation: with the
\* cloud service configured, simulateEnhancedMobileSpeechRecognition() is
\* only reached from the catch block of startRealMobileSpeechRecognition().
FellBack(i) == cfg.configured /\ backend[i] = "sim"

\* The simulation of start call i comes to its end in this step.
ChainEnds(i) == chain[i].phase # "done" /\ chain'[i].phase = "done"

\* C31: when activating the cloud backend fails on a native target, the
\* simulation the session falls back to delivers its transcript: it ends by
\* handing a final result to onResult.
C31_FallbackDeliversFinal ==
    [][\A i \in Calls :
          (FellBack(i) /\ ChainEnds(i))
             => /\ onResultParity' # onResultParity
                /\ lastResult'.src = i
                /\ lastResult'.isFinal]_vars

\* ------------------------------------------------------------------ C32

\* The text consists of plain segments joined by conjunctions, and of more
\* of them than maxTasks (which is at least 1) allows.
MoreSegmentsThanMaxTasks(text, options) ==
    LET segs == ConjunctionSegments(text)
    IN /\ options.maxTasks >= 1
       /\ Len(segs) > options.maxTasks
       /\ \A k \in 1..Len(segs) : PlainSegment(segs[k], options)

\* C32: a text of more conjunction-joined segments than maxTasks = m >= 1
\* is parsed into exactly m tasks, its first m segments.
C32_FirstMaxTasks ==
    (parsePc = "returned" /\ MoreSegmentsThanMaxTasks(parseText, parseOptions))
    => parseResult.tasks =
          [k \in 1..parseOptions.maxTasks |-> Capitalize(ConjunctionSegments(parseText)[k])]

\* ------------------------------------------------------------------ C33

\* The positions of the words of a text, in lower case and split at single
\* spaces, at which an action verb of one or two words begins.
ActionVerbOccurrences(text) ==
    LET words == SplitEach(CollapseSpaces(ToLowerCase(Trim(text))), {Space}, <<>>)
    IN { i \in 1..Len(words) :
            \/ words[i] \in ACTION_VERBS
            \/ /\ i < Len(words)
               /\ (words[i] \o <<Space>> \o words[i + 1]) \in ACTION_VERBS }

\* The text holds no conjunction, not even inside a longer word, and none of
\* the characters the punctuation split divides a text at.
NoConjunctionNoPunctuation(text) ==
    /\ \A c \in ConjunctionSet : ~Includes(ToLowerCase(text), c)
    /\ \A k \in 1..Len(text) : text[k] \notin {",", ".", ";"}

\* C33: a text with exactly one occurrence of an action verb, no conjunction
\* and no splitting punctuation is parsed, with the default options, into
\* exactly one task, wherever the verb stands in the sentence.
C33_SingleVerbNotSplit ==
    (/\ parsePc = "returned"
     /\ parseOptions = DefaultOptions
     /\ Cardinality(ActionVerbOccurrences(parseText)) = 1
     /\ NoConjunctionNoPunctuation(parseText))
    => Len(parseResult.tasks) = 1

\* ------------------------------------------------------------------ C34

\* The words of a text: its maximal runs of word characters, in lower case.
WordsOf(text) ==
    LET parts == SplitEach(ToLowerCase(text), NonWordAtoms, <<>>)
    IN {parts[k] : k \in 1..Len(parts)} \ {<<>>}

\* C34: conjunctions are recognised as whole words or phrases only, so that
\* no word is cut at a conjunction it merely contains: every word of the
\* preprocessed text, and every word of every task returned, is a whole word
\* of the text that was given.
C34_WholeWordConjunctions ==
    /\ parsePc \in {"strategies", "returned"}
       => WordsOf(cleanText) \subseteq WordsOf(parseText)
    /\ parsePc = "returned"
       => \A k \in 1..Len(parseResult.tasks) :
             WordsOf(parseResult.tasks[k]) \subseteq WordsOf(parseText)

\* ------------------------------------------------------------------ C35

\* The longest of the texts over ParseAtoms that are parsed a second time in
\* a normalised variant.
MaxVariantAtoms == 4   \* atoms of a text whose variants are parsed

\* The text in upper case: every letter atom marked as capitalised.
RECURSIVE ToUpperCase(_)
ToUpperCase(s) ==
    IF s = <<>> THEN <<>>
    ELSE IF Head(s) = Marker THEN ToUpperCase(Tail(s))
    ELSE IF IsLetterAtom(Head(s)) THEN <<Marker, Head(s)>> \o ToUpperCase(Tail(s))
    ELSE <<Head(s)>> \o ToUpperCase(Tail(s))

\* The text with every space written twice.
RECURSIVE DoubleSpaces(_)
DoubleSpaces(s) ==
    IF s = <<>> THEN <<>>
    ELSE IF Head(s) = Space THEN <<Space, Space>> \o DoubleSpaces(Tail(s))
    ELSE <<Head(s)>> \o DoubleSpaces(Tail(s))

\* The variants of a text under the normalisations of the claim: another
\* letter case, white space added in front, behind or where there is some
\* already, and one filler phrase put in front.
Variants(text) ==
    {ToLowerCase(text), ToUpperCase(text), <<Space>> \o text, text \o <<Space>>,
     DoubleSpaces(text)}
    \cup {f \o <<Space>> \o text : f \in FillerPhrases}

\* The sentence of the test of the speech prefixes.
INeedToBuyMilk ==
    <<"^", "i", " ", "need", " ", "to", " ", "buy", " ", "milk", " ", "and", " ", "call",
      " ", "mom">>

\* The sentence of the test of the hybrid strategy.
BuyMilkBread ==
    <<"^", "buy", " ", "milk", ",", " ", "bread", " ", "and", " ", "call", " ", "mom", ",",
      " ", "then", " ", "visit", " ", "store">>

VariantTexts ==
    {t \in BoundedTexts : Len(t) <= MaxVariantAtoms} \cup Examples
        \cup {INeedToBuyMilk, BuyMilkBread}

VariantOptions ==
    {o \in OptionValues : o.maxTasks = 10 /\ o.preserveOriginalOnFailure}

InitVariant ==
    /\ cfg = [OS |-> "web", hasRecognition |-> TRUE, configured |-> FALSE,
              partialResults |-> TRUE]
    /\ SessionInit
    /\ GateUnused
    /\ ConfirmUnused
    /\ TasksUnused
    /\ DeviceUnused
    /\ parseOptions \in VariantOptions
    /\ parseText \in VariantTexts
    /\ parsePc = "idle"
    /\ cleanText = <<>>
    /\ strategyIdx = 0
    /\ strategyThrew = {}
    /\ bestResult = NoParseResult
    /\ parseResult = NoParseResult
    /\ nParses = 1
    /\ parsed = <<>>

\* The second call of parseTasksFromSpeech on the parser, with a variant v
\* of the text of the first call.
ParseVariant(v) ==
    /\ Len(parsed) = 1
    /\ ParseAgain(v)

NextVariant ==
    \/ ParseTasksFromSpeech
    \/ TryStrategy
    \/ ParseReturns
    \/ \E v \in Variants(parseText) : ParseVariant(v)

SpecVariant == InitVariant /\ [][NextVariant]_vars

StartsWithFiller(text) ==
    \E f \in FillerPhrases : StartsWithAt(ToLowerCase(Trim(text)), 1, f)

BeginsWithConjunction(task) ==
    LET body == ToLowerCase(task)
    IN /\ body # <<>>
       /\ Head(body) \in LeadingWords
       /\ (Len(body) = 1 \/ ~IsWordAtom(body[2]))

\* The task has no white space at its ends and no two white-space characters
\* in a row, does not begin with a conjunction word, and begins with an
\* upper-case character when it begins with a letter.
Cleaned(task) ==
    /\ task # <<>> => Head(task) # Space /\ task[Len(task)] # Space
    /\ \A k \in 1..(Len(task) - 1) : ~(task[k] = Space /\ task[k + 1] = Space)
    /\ ~BeginsWithConjunction(task)
    /\ (task # <<>> /\ Head(task) # Marker) => ~IsLetterAtom(Head(task))

\* C36: every task of a ParseResult returned is cleaned.
C36_TasksCleaned ==
    parsePc = "returned"
    => \A k \in 1..Len(parseResult.tasks) : Cleaned(parseResult.tasks[k])

(***************************************************************************)
(* Part 5: TaskProvider.addTask (context/TaskContext.tsx) as               *)
(* handleConfirmTranscript calls it.                                       *)
(*                                                                         *)
(* parsedTasks.map(addTask) calls the addTask closure of one render once   *)
(* for every parsed title, synchronously; each call runs up to its         *)
(* await saveTasksToStorage(updatedTasks).  The writes to AsyncStorage      *)
(* settle later, one by one, in any order.  A task is written as the       *)
(* number of its title: 10 * confirmation + index.                         *)
(***************************************************************************)

MaxTitles == 3      \* tasks parsed from one transcript
MaxConfirms == 2    \* confirmations of a transcript

\* The title of the k-th task of confirmation c.
Title(c, k) == 10 * c + k

InitTasks ==
    /\ cfg = [OS |-> "web", hasRecognition |-> TRUE, configured |-> FALSE,
              partialResults |-> TRUE]
    /\ SessionInit
    /\ GateUnused
    /\ ParseUnused
    /\ ConfirmUnused
    /\ DeviceUnused
    /\ TasksUnused

\* handleConfirmTranscript: parsedTasks.map(taskTitle => addTask(...)) for n
\* parsed titles.  The render is up to date, so the closure holds the
\* current tasks; every call computes updatedTasks = [...tasks, newTask] from
\* that same list, calls setTasks(updatedTasks) (the last call's list is the
\* state after the batch) and starts saveTasks(updatedTasks).
AddTasks(n) ==
    /\ addPc \in {"idle", "settled"}
    /\ nConfirms < MaxConfirms
    /\ n \in 1..MaxTitles
    /\ nConfirms' = nConfirms + 1
    /\ nTitles' = n
    /\ closureTasks' = ctxTasks
    /\ updatedTasks' = [k \in 1..n |-> Append(ctxTasks, Title(nConfirms', k))]
    /\ ctxTasks' = updatedTasks'[n]
    /\ saving' = [k \in 1..n |-> "pending"]
    /\ addPc' = "awaiting"
    /\ UNCHANGED <<speechVars, gateVars, parseVars, confirmVars, deviceVars, storedTasks>>

\* AsyncStorage.setItem of the k-th addTask call settles.  saveTasks catches
\* a failed write and only logs it, so addTask never sees it.
SaveTasksSettles(k, ok) ==
    /\ addPc = "awaiting"
    /\ k \in 1..nTitles
    /\ saving[k] = "pending"
    /\ saving' = [saving EXCEPT ![k] = IF ok THEN "saved" ELSE "failed"]
    /\ storedTasks' = IF ok THEN updatedTasks[k] ELSE storedTasks
    /\ UNCHANGED <<speechVars, gateVars, parseVars, confirmVars, deviceVars, ctxTasks,
                   closureTasks, updatedTasks, nTitles, addPc, nConfirms>>

\* await Promise.all(taskPromises) resumes: every addTask call has returned.
PromiseAllResolves ==
    /\ addPc = "awaiting"
    /\ \A k \in 1..nTitles : saving[k] # "pending"
    /\ addPc' = "settled"
    /\ UNCHANGED <<speechVars, gateVars, parseVars, confirmVars, deviceVars, ctxTasks,
                   storedTasks, closureTasks, updatedTasks, saving, nTitles, nConfirms>>

NextTasks ==
    \/ \E n \in 1..MaxTitles : AddTasks(n)
    \/ \E k \in 1..MaxTitles, ok \in BOOLEAN : SaveTasksSettles(k, ok)
    \/ PromiseAllResolves

SpecTasks == InitTasks /\ [][NextTasks]_vars

\* The list holds, after the tasks that were there before the confirmation,
\* one task for each of its titles and nothing else.
HoldsAllTitles(list) ==
    /\ Len(list) = Len(closureTasks) + nTitles
    /\ SubSeq(list, 1, Len(closureTasks)) = closureTasks
    /\ \A k \in 1..nTitles : \E j \in 1..Len(list) : list[j] = Title(nConfirms, k)

\* C37: once all addTask calls of a confirmation that parsed N tasks have
\* completed, the task list holds N more tasks than before, one for each
\* title, and so does its persisted copy when the writes succeeded.
C37_NoTaskLost ==
    addPc = "settled"
    => /\ HoldsAllTitles(ctxTasks)
       /\ (\A k \in 1..nTitles : saving[k] = "saved") => HoldsAllTitles(storedTasks)

\* ------------------------------------------------------------------ C38

\* startListening() call i fails in this step: its promise is rejected, or
\* the cloud backend it selected fails to start and is given up.
StartFails(i) ==
    \/ rejection[i] = "none" /\ rejection'[i] # "none"
    \/ cfg.configured /\ backend[i] # "sim" /\ backend'[i] = "sim"

\* C38: each failure of a start invokes onError exactly once, whatever its
\* cause.
C38_OneErrorPerFailure ==
    [][\A i \in Calls : StartFails(i) => onErrorCalls' = onErrorCalls + 1]_vars

(***************************************************************************)
(* Part 6: AudioRecorderService (services/audioRecorderService.ts).        *)
(*                                                                         *)
(* startRecording, stopRecording and cancelRecording are async: each runs  *)
(* up to an await, and the calls of a caller that does not await them      *)
(* overlap (SpeechService starts and stops recordings from startListening, *)
(* stopListening and a timer).  A call waits at: path (startRecording, in  *)
(* generateRecordingFilePath), write (startRecording, in                   *)
(* createMockAudioFile), stat (stopRecording, in RNFS.stat), cleanup       *)
(* (cancelRecording, in RNFS.exists and RNFS.unlink); it ends as returned  *)
(* or threw.  Awaits in a row between which no field is written are one    *)
(* wait.                                                                   *)
(***************************************************************************)

MaxOps == 4     \* calls of the recorder

NoOp == [kind |-> "none", pc |-> "none"]

InitRecorder ==
    /\ cfg = [OS |-> "native", hasRecognition |-> FALSE, configured |-> TRUE,
              partialResults |-> TRUE]
    /\ SessionInit
    /\ GateUnused
    /\ ParseUnused
    /\ ConfirmUnused
    /\ TasksUnused
    /\ currentRecordingPath = 0
    /\ op = [i \in 1..MaxOps |-> NoOp]
    /\ nOps = 0

\* The variables of the session but the recorder's isRecording.
sessionOnlyVars ==
    <<cfg, sessionVars, recOwner, callVars, rec, timerVars, job, transcription,
      deactivated, stopVars, cbVars>>

otherPartsVars == <<sessionOnlyVars, gateVars, parseVars, confirmVars, taskVars>>

\* startRecording() is called: it throws 'Recording already in progress'
\* when isRecording is set, and otherwise awaits generateRecordingFilePath().
StartRecording(i) ==
    /\ i = nOps + 1
    /\ i <= MaxOps
    /\ nOps' = i
    /\ op' = [op EXCEPT ![i] = [kind |-> "start",
                                pc |-> IF isRecording THEN "threw" ELSE "path"]]
    /\ UNCHANGED <<otherPartsVars, isRecording, currentRecordingPath>>

\* generateRecordingFilePath() of startRecording call i has returned (ok):
\* the path and isRecording are set and createMockAudioFile() is awaited; or
\* it has thrown: the catch clears isRecording and throws.
RecordingPathSettles(i, ok) ==
    /\ op[i] = [kind |-> "start", pc |-> "path"]
    /\ IF ok
       THEN /\ currentRecordingPath' = i
            /\ isRecording' = TRUE
            /\ op' = [op EXCEPT ![i].pc = "write"]
       ELSE /\ isRecording' = FALSE
            /\ op' = [op EXCEPT ![i].pc = "threw"]
            /\ UNCHANGED currentRecordingPath
    /\ UNCHANGED <<otherPartsVars, nOps>>

\* createMockAudioFile() of startRecording call i has returned (ok), and the
\* call returns the path; or it has thrown: the catch clears isRecording.
MockFileSettles(i, ok) ==
    /\ op[i] = [kind |-> "start", pc |-> "write"]
    /\ IF ok
       THEN /\ op' = [op EXCEPT ![i].pc = "returned"]
            /\ UNCHANGED isRecording
       ELSE /\ isRecording' = FALSE
            /\ op' = [op EXCEPT ![i].pc = "threw"]
    /\ UNCHANGED <<otherPartsVars, nOps, currentRecordingPath>>

\* stopRecording() is called: it throws 'No recording in progress' when
\* isRecording is clear, and otherwise clears it and awaits RNFS.stat().
StopRecording(i) ==
    /\ i = nOps + 1
    /\ i <= MaxOps
    /\ nOps' = i
    /\ op' = [op EXCEPT ![i] = [kind |-> "stop",
                                pc |-> IF isRecording THEN "stat" ELSE "threw"]]
    /\ isRecording' = FALSE
    /\ UNCHANGED <<otherPartsVars, currentRecordingPath>>

\* RNFS.stat() of stopRecording call i has returned (ok), and the call
\* returns the result; or it has thrown: the catch clears isRecording and
\* returns a result without success.
StatSettles(i, ok) ==
    /\ op[i] = [kind |-> "stop", pc |-> "stat"]
    /\ op' = [op EXCEPT ![i].pc = "returned"]
    /\ isRecording' = IF ok THEN isRecording ELSE FALSE
    /\ UNCHANGED <<otherPartsVars, nOps, currentRecordingPath>>

\* cancelRecording() is called: it returns at once when isRecording is
\* clear; with a path it awaits RNFS.exists() and RNFS.unlink(); without
\* one it resets the fields and returns.
CancelRecording(i) ==
    /\ i = nOps + 1
    /\ i <= MaxOps
    /\ nOps' = i
    /\ IF ~isRecording
       THEN /\ op' = [op EXCEPT ![i] = [kind |-> "cancel", pc |-> "returned"]]
            /\ UNCHANGED isRecording
       ELSE IF currentRecordingPath # 0
       THEN /\ op' = [op EXCEPT ![i] = [kind |-> "cancel", pc |-> "cleanup"]]
            /\ UNCHANGED isRecording
       ELSE /\ op' = [op EXCEPT ![i] = [kind |-> "cancel", pc |-> "returned"]]
            /\ isRecording' = FALSE
    /\ UNCHANGED <<otherPartsVars, currentRecordingPath>>

\* The removal of the file by cancelRecording call i has ended (ok): the
\* fields are reset; or it has thrown: the catch clears isRecording only.
CancelSettles(i, ok) ==
    /\ op[i] = [kind |-> "cancel", pc |-> "cleanup"]
    /\ op' = [op EXCEPT ![i].pc = "returned"]
    /\ isRecording' = FALSE
    /\ currentRecordingPath' = IF ok THEN 0 ELSE currentRecordingPath
    /\ UNCHANGED <<otherPartsVars, nOps>>

NextRecorder ==
    \/ \E i \in 1..MaxOps : StartRecording(i)
    \/ \E i \in 1..MaxOps, ok \in BOOLEAN : RecordingPathSettles(i, ok)
    \/ \E i \in 1..MaxOps, ok \in BOOLEAN : MockFileSettles(i, ok)
    \/ \E i \in 1..MaxOps : StopRecording(i)
    \/ \E i \in 1..MaxOps, ok \in BOOLEAN : StatSettles(i, ok)
    \/ \E i \in 1..MaxOps : CancelRecording(i)
    \/ \E i \in 1..MaxOps, ok \in BOOLEAN : CancelSettles(i, ok)

SpecRecorder == InitRecorder /\ [][NextRecorder]_vars

\* Call i of the recorder is made in this step / comes to its end in it.
Called(i, kind) == op[i] = NoOp /\ op'[i].kind = kind
Ended(i) == op[i].pc \notin {"returned", "threw"} /\ op'[i].pc \in {"returned", "threw"}

\* C39: startRecording while a recording is in progress throws and leaves
\* the recording as it is; stopRecording with no recording in progress
\* throws; cancelRecording with no recording in progress changes nothing;
\* and when a stopRecording or cancelRecording call has ended, however it
\* ended, the recorder is not recording.
C39_RecordingFlagConsistent ==
    [][\A i \in 1..MaxOps :
          /\ (Called(i, "start") /\ isRecording)
                => /\ op'[i].pc = "threw"
                   /\ isRecording'
                   /\ currentRecordingPath' = currentRecordingPath
          /\ (Called(i, "stop") /\ ~isRecording) => op'[i].pc = "threw"
          /\ (Called(i, "cancel") /\ ~isRecording)
                => /\ op'[i].pc = "returned"
                   /\ ~isRecording'
                   /\ currentRecordingPath' = currentRecordingPath
          /\ (Ended(i) /\ op'[i].kind \in {"stop", "cancel"}) => ~isRecording']_vars

\* ------------------------------------------------------------------ C40

\* C40: no ParseResult returned has the strategy HYBRID or SINGLE_TASK; had
\* the hybrid strategy succeeded, the conjunction split would have succeeded
\* too, with the confidence 0.9, and would be the result returned.
C40_NeverHybrid ==
    parsePc = "returned"
    => /\ parseResult.strategy \notin {HYBRID, SINGLE_TASK}
       /\ (~Blank(parseText) /\ Succeeded(4, parseText, parseOptions))
             => /\ Succeeded(1, parseText, parseOptions)
                /\ Outcome(1, parseText, parseOptions).result.confidence = 90
                /\ parseResult = Outcome(1, parseText, parseOptions).result

\* 'Buy milk, bread and call mom, then visit store', which the hybrid
\* strategy is there to refine, has been parsed with the default options:
\* the hybrid strategy was tried and the result returned is that of the
\* action-verb split.
C40_Witness ==
    /\ parsePc = "returned"
    /\ parseOptions = DefaultOptions
    /\ parseText = BuyMilkBread
    /\ Len(ConjunctionSegments(parseText)) = 3
    /\ Includes(cleanText, <<",">>)
    /\ strategyIdx > NumStrategies
    /\ parseResult.success
    /\ parseResult.strategy = ACTION_VERB_SPLIT
    /\ Len(parseResult.tasks) = 3

====
